---- MODULE Spec2Model ----
(***************************************************************************)
(* Single-instrument exchange: the AVL order book (TxnBST), and the        *)
(* Exchange engine (AcceptTrades, ProcessTrades, GetOrderBook) that owns   *)
(* two books, the last traded price and the book lock.                     *)
(*                                                                         *)
(* TreeSpec drives one TxnBST with arbitrary Insert / Remove / Search      *)
(* calls.  Spec runs the engine's goroutines; FairSpec runs them on valid  *)
(* orders with the fairness the Go scheduler and sync.Mutex give.          *)
(* MatchSpec, SerialSpec, NotifySpec, BlockSpec and BookSpec run the engine *)
(* on the order flows and with the parties that the pairing, long runs,   *)
(* the price update callbacks and GetOrderBook are studied on.  PriceSpec  *)
(* adds the readers of LastTradedPrice, FifoSpec concurrent producers.     *)
(* ConcSpec runs the callers of one ConcurrentTxnBST, PoolSpec those of    *)
(* one NodePool, IdSpec the calls of NewTransaction against the clock.     *)
(* LifeSpec keeps a record of the orders matched so far, OrderSpec numbers *)
(* the orders of one TxnBST as they are inserted, SeqSpec runs one caller  *)
(* of a ConcurrentTxnBST, GenSpec the random trade generator.              *)
(***************************************************************************)
EXTENDS Integers, Sequences, FiniteSets, Bags, TLC

\* ---------------------------------------------------------------- bounds
\* Largest number of nodes the tree harness lets one TxnBST hold.
MaxNodes == 4
\* Largest price the tree harness and the producers use.
MaxPrice == 2
\* Number of orders the producers create during one run of the engine.
MaxOrders == 3
\* Number of timed-out lock acquirers the model tells apart (it saturates).
MaxOrphans == 1
\* Number of orders the producers create in the runs that study the pairing.
MaxMatchOrders == 4
\* Number of orders the producers create in the runs where ingestion and
\* matching take turns.
MaxSerialOrders == 9
\* Number of callbacks registered during one run.
MaxSubscribers == 2
\* Number of orders the producers create in the runs that fill one book.
MaxBookOrders == 11
\* Number of concurrent callers of one ConcurrentTxnBST.
MaxCallers == 4
\* Number of producers that send orders concurrently.
MaxProducers == 2
\* Number of nodes the callers of one NodePool hold at a time.
MaxHeld == 2
\* Number of Put calls with a node made on one NodePool.
MaxRecycled == 3
\* Latest reading of the clock in the runs that study the identities.
MaxClock == 2
\* Number of NewTransaction calls in those runs.
MaxCreated == 3
\* Number of nodes one NodePool allocates in the runs of one caller.
MaxAllocated == 4
\* Largest current price the trade generator is run on.
MaxTarget == 102
\* Number of Insert calls in the runs that number the orders as they come.
MaxInserted == 4

\* ------------------------------------------------------- program constants
BuyTransactionType == "BUY"
SellTransactionType == "SELL"
\* GetOrderBook: the number of entries kept on each side.
OrderBookDepth == 10
\* NewExchange's and ProcessTrades' minimum valid price.
MinPrice == 1
\* getRandomIntForBuy: how far below the current price a buy price may be.
BuyBelow == 100
\* getRandomIntForSell: how far below and above the current price a sell
\* price may be.
SellBelow == 25
SellAbove == 100

\* ----------------------------------------------------------------- state
VARIABLES
    \* tree harness
    bst,             \* TxnBST.Root of the tree under test
    lastOp,          \* the last call made on bst: "none", "insert", "remove", "search"
    lastArg,         \* its argument (a Transaction, or an amount for search)
    searchResult,    \* what the last call returned if it was a Search, else nil
    \* exchange
    LastTradedPrice, \* Exchange.LastTradedPrice
    BuyQ,            \* Exchange.BuyQ.Root
    SellQ,           \* Exchange.SellQ.Root
    queueLock,       \* holder of Exchange.queueLock: "free", "accept", "book",
                     \* "process" (this cycle's locking goroutine), "orphan"
    initLtp,         \* the argument NewExchange was called with
    nextId,          \* number of transactions created so far (source of IDs)
    acceptPc,        \* AcceptTrades: "recv", "lock", "insert"; "dead" once the
                     \* process has terminated (likewise procPc and bookPc)
    acceptTxn,       \* the transaction AcceptTrades dequeued last
    procPc,          \* ProcessTrades: "tick", "select", "pairs"
    acquirer,        \* this cycle's locking goroutine: "none", "waiting", "sent"
    orphans,         \* locking goroutines of skipped cycles still blocked in Lock
    matchedPairs,    \* pairs of this cycle not yet processed
    cycleMatched,    \* the transactions matched by the cycle under way
    bookPc,          \* GetOrderBook caller: "idle", "lock", "read"
    cyclePairs,      \* the pairs the cycle under way found, in pairing order
    priceUpdateCallbacks,
                     \* Exchange.priceUpdateCallbacks: the registered callbacks
    pending,         \* the callbacks with a goroutine started by
                     \* go callback(price) that has not run yet
    notified,        \* the invocations the cycle under way has started, in order
    cycleCallbacks,  \* number of callbacks registered when that cycle began
    orderBook,       \* what GetOrderBook returned, if a call returned in the
                     \* last step, else nil
    priceRead,       \* the value a reader of LastTradedPrice loaded in the
                     \* last step, else 0
    \* node pool and concurrent tree
    pool,            \* NodePool.pool: the bag of nodes put and not yet got
    allocated,       \* NodePool.allocated
    recycled,        \* NodePool.recycled
    rwLock,          \* ConcurrentTxnBST.rwLock: its writer (0: none) and readers
    callerPc,        \* where each caller of the concurrent tree is
    found,           \* what each caller's last Search returned
    \* producers
    created,         \* the orders each producer has created, in order
    sending,         \* the order each producer is blocked sending, else nil
    \* node pool harness
    held,            \* the bag of nodes got from the pool and not put back
    poolOp,          \* the last call made on the pool: "none", "get", "put",
                     \* "putnil" (or "use": a caller wrote to a node it holds)
    lastGot,         \* the node that call returned if it was a Get, else nil
    \* identities
    now,             \* the wall clock: what time.Now().UnixNano() returns
    newTxns,         \* the transactions NewTransaction has returned, in order
    \* order lifecycle
    matchedBefore,   \* the orders that cycles have put in a matched pair so far
    insertCount,     \* the number of Insert calls made on bst so far
    \* trade generator
    currentPrice,    \* the price generateRandomTrades read for this round
    genTxn           \* the order it generated last, else nil

treeVars == <<bst, lastOp, lastArg, searchResult>>

concVars == <<pool, allocated, recycled, rwLock, callerPc, found>>

prodVars == <<created, sending>>

poolVars == <<held, poolOp, lastGot>>

idVars == <<now, newTxns>>

lifeVars == <<matchedBefore, insertCount>>

genVars == <<currentPrice, genTxn>>

exchVars == <<LastTradedPrice, BuyQ, SellQ, queueLock, initLtp, nextId,
              acceptPc, acceptTxn, procPc, acquirer, orphans, matchedPairs,
              cycleMatched, bookPc, cyclePairs, priceUpdateCallbacks, pending,
              notified, cycleCallbacks, orderBook, priceRead>>

vars == <<bst, lastOp, lastArg, searchResult,
          LastTradedPrice, BuyQ, SellQ, queueLock, initLtp, nextId,
          acceptPc, acceptTxn, procPc, acquirer, orphans, matchedPairs,
          cycleMatched, bookPc, cyclePairs, priceUpdateCallbacks, pending,
          notified, cycleCallbacks, orderBook, priceRead,
          pool, allocated, recycled, rwLock, callerPc, found,
          created, sending, held, poolOp, lastGot, now, newTxns,
          matchedBefore, insertCount, currentPrice, genTxn>>

\* ------------------------------------------------------------ Transaction
\* A Transaction value.  The engine and tree runs are given orders with
\* distinct IDs (a counter, one per created order); IdSpec studies the IDs
\* NewTransaction makes.
Transaction(id, type, amount) == [ID |-> id, Type |-> type, Amount |-> amount]

\* A nil *Transaction.
NoTxn == [nil |-> TRUE]

\* -------------------------------------------------------------- treeNode
\* A nil *treeNode.
NilNode == [nil |-> TRUE]

treeNode(value, left, right, h) ==
    [nil |-> FALSE, Value |-> value, Left |-> left, Right |-> right, Height |-> h]

height(node) == IF node.nil THEN -1 ELSE node.Height

updateHeight(node) ==
    LET leftHeight == height(node.Left)
        rightHeight == height(node.Right)
    IN IF leftHeight > rightHeight
       THEN [node EXCEPT !.Height = leftHeight + 1]
       ELSE [node EXCEPT !.Height = rightHeight + 1]

balanceFactor(node) ==
    IF node.nil THEN 0 ELSE height(node.Left) - height(node.Right)

\* rotateRight leaving the Height fields of the two nodes as they were.
rotateRightKeepsHeights(y) ==
    LET x == y.Left
        T2 == x.Right
    IN [x EXCEPT !.Right = [y EXCEPT !.Left = T2]]

rotateRight(y) ==
    LET x == y.Left
        T2 == x.Right
        y2 == updateHeight([y EXCEPT !.Left = T2])
    IN updateHeight([x EXCEPT !.Right = y2])

\* rotateLeft returning the old subtree root x instead of y.
rotateLeftReturnsOldRoot(x) ==
    LET y == x.Right
        T2 == y.Left
    IN updateHeight([x EXCEPT !.Right = T2])

rotateLeft(x) ==
    LET y == x.Right
        T2 == y.Left
        x2 == updateHeight([x EXCEPT !.Right = T2])
    IN updateHeight([y EXCEPT !.Left = x2])

\* The descent of insertNode with equal prices sent to the right.
InsertGoesLeftStrict(value, node) == value.Amount < node.Value.Amount

\* The branch insertNode descends into: TRUE for the left subtree.
InsertGoesLeft(value, node) == value.Amount <= node.Value.Amount

RECURSIVE insertNode(_, _)
insertNode(node, value) ==
    IF node.nil THEN treeNode(value, NilNode, NilNode, 0)
    ELSE
      LET n1 == IF InsertGoesLeft(value, node)
                THEN [node EXCEPT !.Left = insertNode(node.Left, value)]
                ELSE [node EXCEPT !.Right = insertNode(node.Right, value)]
          n2 == updateHeight(n1)
          balance == balanceFactor(n2)
      IN IF balance > 1 /\ value.Amount <= n2.Left.Value.Amount
           THEN rotateRight(n2)
         ELSE IF balance < -1 /\ value.Amount > n2.Right.Value.Amount
           THEN rotateLeft(n2)
         ELSE IF balance > 1 /\ value.Amount > n2.Left.Value.Amount
           THEN rotateRight([n2 EXCEPT !.Left = rotateLeft(n2.Left)])
         ELSE IF balance < -1 /\ value.Amount <= n2.Right.Value.Amount
           THEN rotateLeft([n2 EXCEPT !.Right = rotateRight(n2.Right)])
         ELSE n2

\* searchNode that never descends into the right subtree.
RECURSIVE searchNodeLeftOnly(_, _)
searchNodeLeftOnly(node, value) ==
    IF node.nil THEN NoTxn
    ELSE IF value = node.Value.Amount THEN node.Value
    ELSE IF value < node.Value.Amount
      THEN (IF node.Left.nil THEN NoTxn ELSE searchNodeLeftOnly(node.Left, value))
      ELSE NoTxn

RECURSIVE searchNode(_, _)
searchNode(node, value) ==
    IF node.nil THEN NoTxn
    ELSE IF value = node.Value.Amount THEN node.Value
    ELSE IF value < node.Value.Amount
      THEN (IF node.Left.nil THEN NoTxn ELSE searchNode(node.Left, value))
      ELSE (IF node.Right.nil THEN NoTxn ELSE searchNode(node.Right, value))

RECURSIVE inorder(_)
inorder(node) ==
    IF node.nil THEN <<>>
    ELSE (IF node.Left.nil THEN <<>> ELSE inorder(node.Left))
         \o <<node.Value>>
         \o (IF node.Right.nil THEN <<>> ELSE inorder(node.Right))

\* findMinValue walking right: the maximum of the subtree.
RECURSIVE findMaxValue(_)
findMaxValue(node) ==
    IF node.Right.nil THEN node.Value ELSE findMaxValue(node.Right)

RECURSIVE findMinValue(_)
findMinValue(node) ==
    IF node.Left.nil THEN node.Value ELSE findMinValue(node.Left)

\* removeNode's tail without its four rotation cases.
removeRebalanceNoRotation(node) == updateHeight(node)

\* The rebalancing tail of removeNode (update height, then the four cases).
removeRebalance(node) ==
    LET n2 == updateHeight(node)
        balance == balanceFactor(n2)
    IN IF balance > 1 /\ balanceFactor(n2.Left) >= 0
         THEN rotateRight(n2)
       ELSE IF balance > 1 /\ balanceFactor(n2.Left) < 0
         THEN rotateRight([n2 EXCEPT !.Left = rotateLeft(n2.Left)])
       ELSE IF balance < -1 /\ balanceFactor(n2.Right) <= 0
         THEN rotateLeft(n2)
       ELSE IF balance < -1 /\ balanceFactor(n2.Right) > 0
         THEN rotateLeft([n2 EXCEPT !.Right = rotateRight(n2.Right)])
       ELSE n2

\* removeNode deleting the first node of the price, whatever its identity.
RECURSIVE removeNodeByPrice(_, _)
removeNodeByPrice(node, value) ==
    IF node.nil THEN NilNode
    ELSE IF value.Amount < node.Value.Amount
      THEN removeRebalance([node EXCEPT !.Left = removeNodeByPrice(node.Left, value)])
    ELSE IF value.Amount > node.Value.Amount
      THEN removeRebalance([node EXCEPT !.Right = removeNodeByPrice(node.Right, value)])
    ELSE IF node.Left.nil /\ node.Right.nil THEN NilNode
    ELSE IF node.Left.nil THEN node.Right
    ELSE IF node.Right.nil THEN node.Left
    ELSE LET minValue == findMinValue(node.Right)
         IN removeRebalance([node EXCEPT !.Value = minValue,
                                         !.Right = removeNodeByPrice(node.Right, minValue)])

RECURSIVE removeNode(_, _)
removeNode(node, value) ==
    IF node.nil THEN NilNode
    ELSE IF value.Amount < node.Value.Amount
      THEN removeRebalance([node EXCEPT !.Left = removeNode(node.Left, value)])
    ELSE IF value.Amount > node.Value.Amount
      THEN removeRebalance([node EXCEPT !.Right = removeNode(node.Right, value)])
    ELSE IF node.Value.ID # value.ID
      THEN removeRebalance([node EXCEPT !.Right = removeNode(node.Right, value)])
    ELSE IF node.Left.nil /\ node.Right.nil THEN NilNode
    ELSE IF node.Left.nil THEN node.Right
    ELSE IF node.Right.nil THEN node.Left
    ELSE LET minValue == findMinValue(node.Right)
         IN removeRebalance([node EXCEPT !.Value = minValue,
                                         !.Right = removeNode(node.Right, minValue)])

\* TxnBST methods on the root.
Insert(root, value) == insertNode(root, value)
Remove(root, value) == removeNode(root, value)
Search(root, value) == searchNode(root, value)
InorderTraversal(root) == inorder(root)

\* Exchange.Insert / Remove / Search / InorderTraversal on a book are the
\* TxnBST methods above.

\* ------------------------------------------------------ NewExchange state
\* NewExchange without the clamp of the initial price.
NewExchangeNoClamp(ltp) == ltp

NewExchange(ltp) == IF ltp < MinPrice THEN MinPrice ELSE ltp

\* No GetOrderBook result at hand.
NoOrderBook == [nil |-> TRUE]

\* No value of LastTradedPrice loaded (no price is below 1).
NoPrice == MinPrice - 1

\* The exchange as NewExchange(ltp) returns it, no goroutine started yet.
ExchInit(ltp) ==
    /\ initLtp = ltp
    /\ LastTradedPrice = NewExchange(ltp)
    /\ BuyQ = NilNode
    /\ SellQ = NilNode
    /\ queueLock = "free"
    /\ nextId = 0
    /\ acceptPc = "recv"
    /\ acceptTxn = NoTxn
    /\ procPc = "tick"
    /\ acquirer = "none"
    /\ orphans = 0
    /\ matchedPairs = <<>>
    /\ cycleMatched = {}
    /\ bookPc = "idle"
    /\ cyclePairs = <<>>
    /\ priceUpdateCallbacks = <<>>
    /\ pending = {}
    /\ notified = <<>>
    /\ cycleCallbacks = 0
    /\ orderBook = NoOrderBook
    /\ priceRead = NoPrice

\* ------------------------------------------- NodePool, ConcurrentTxnBST
\* The zero Transaction and the node &treeNode{} that NodePool's New returns.
ZeroTxn == Transaction(0, "", 0)
ZeroNode == treeNode(ZeroTxn, NilNode, NilNode, 0)

\* NodePool.Get(): sync.Pool hands out one of the nodes put earlier, or calls
\* New, which counts the allocation.  sync.Pool promises no reuse (it drops
\* its items at garbage collection and does not look into the private slot
\* of another P), so New is an outcome whatever the pool holds.  The result
\* is the set of outcomes: the node returned, the pool and the counter after.
NodePoolGet(p, a) ==
    {[node |-> n, pool |-> p (-) SetToBag({n}), allocated |-> a] :
        n \in BagToSet(p)}
    \cup {[node |-> ZeroNode, pool |-> p, allocated |-> a + 1]}

\* NodePool.Put leaving the node as it is.
PutKeepsLinks(node) == node

\* NodePool.Put clearing the child links only.
PutKeepsHeight(node) == [node EXCEPT !.Left = NilNode, !.Right = NilNode]

\* NodePool.Put: the reset of the node (Value is left as it was).
PutReset(node) ==
    [node EXCEPT !.Left = NilNode, !.Right = NilNode, !.Height = 0]

\* NodePool.Put(node): nothing for nil, else reset, count, return to the pool.
NodePoolPut(p, r, node) ==
    IF node.nil THEN [pool |-> p, recycled |-> r]
    ELSE [pool |-> p (+) SetToBag({PutReset(node)}), recycled |-> r + 1]

\* Put of each node of a sequence in turn (the loop of Remove).
RECURSIVE PutAll(_, _, _)
PutAll(p, r, nodes) ==
    IF nodes = <<>> THEN [pool |-> p, recycled |-> r]
    ELSE LET after == NodePoolPut(p, r, Head(nodes))
         IN PutAll(after.pool, after.recycled, Tail(nodes))

\* ConcurrentTxnBST.insertNodeWithPool: newNode is the node nodePool.Get()
\* returns at the nil position the descent ends in.
RECURSIVE insertNodeWithPool(_, _, _)
insertNodeWithPool(node, value, newNode) ==
    IF node.nil THEN [newNode EXCEPT !.Value = value, !.Height = 0]
    ELSE
      LET n1 == IF value.Amount <= node.Value.Amount
                THEN [node EXCEPT !.Left = insertNodeWithPool(node.Left, value, newNode)]
                ELSE [node EXCEPT !.Right = insertNodeWithPool(node.Right, value, newNode)]
          n2 == updateHeight(n1)
          balance == balanceFactor(n2)
      IN IF balance > 1 /\ value.Amount <= n2.Left.Value.Amount
           THEN rotateRight(n2)
         ELSE IF balance < -1 /\ value.Amount > n2.Right.Value.Amount
           THEN rotateLeft(n2)
         ELSE IF balance > 1 /\ value.Amount > n2.Left.Value.Amount
           THEN rotateRight([n2 EXCEPT !.Left = rotateLeft(n2.Left)])
         ELSE IF balance < -1 /\ value.Amount <= n2.Right.Value.Amount
           THEN rotateLeft([n2 EXCEPT !.Right = rotateRight(n2.Right)])
         ELSE n2

\* removeNodeWithRecycling without the rebalancing tail of removeNode.
RECURSIVE removeNodeWithRecyclingNoRotation(_, _)
removeNodeWithRecyclingNoRotation(node, value) ==
    IF node.nil THEN [node |-> NilNode, nodesToRecycle |-> <<>>]
    ELSE IF value.Amount < node.Value.Amount
      THEN LET sub == removeNodeWithRecyclingNoRotation(node.Left, value)
           IN [node |-> updateHeight([node EXCEPT !.Left = sub.node]),
               nodesToRecycle |-> sub.nodesToRecycle]
    ELSE IF value.Amount > node.Value.Amount
      THEN LET sub == removeNodeWithRecyclingNoRotation(node.Right, value)
           IN [node |-> updateHeight([node EXCEPT !.Right = sub.node]),
               nodesToRecycle |-> sub.nodesToRecycle]
    ELSE IF node.Value.ID # value.ID
      THEN LET sub == removeNodeWithRecyclingNoRotation(node.Right, value)
           IN [node |-> updateHeight([node EXCEPT !.Right = sub.node]),
               nodesToRecycle |-> sub.nodesToRecycle]
    ELSE IF node.Left.nil /\ node.Right.nil
      THEN [node |-> NilNode, nodesToRecycle |-> <<node>>]
    ELSE IF node.Left.nil
      THEN [node |-> node.Right, nodesToRecycle |-> <<node>>]
    ELSE IF node.Right.nil
      THEN [node |-> node.Left, nodesToRecycle |-> <<node>>]
    ELSE LET minValue == findMinValue(node.Right)
             sub == removeNodeWithRecyclingNoRotation(node.Right, minValue)
         IN [node |-> updateHeight([node EXCEPT !.Value = minValue,
                                                !.Right = sub.node]),
             nodesToRecycle |-> sub.nodesToRecycle]

\* ConcurrentTxnBST.removeNodeWithRecycling: the subtree after the removal
\* and the nodes appended to nodesToRecycle; its rebalancing tail is the text
\* of removeNode's.
RECURSIVE removeNodeWithRecycling(_, _)
removeNodeWithRecycling(node, value) ==
    IF node.nil THEN [node |-> NilNode, nodesToRecycle |-> <<>>]
    ELSE IF value.Amount < node.Value.Amount
      THEN LET sub == removeNodeWithRecycling(node.Left, value)
           IN [node |-> removeRebalance([node EXCEPT !.Left = sub.node]),
               nodesToRecycle |-> sub.nodesToRecycle]
    ELSE IF value.Amount > node.Value.Amount
      THEN LET sub == removeNodeWithRecycling(node.Right, value)
           IN [node |-> removeRebalance([node EXCEPT !.Right = sub.node]),
               nodesToRecycle |-> sub.nodesToRecycle]
    ELSE IF node.Value.ID # value.ID
      THEN LET sub == removeNodeWithRecycling(node.Right, value)
           IN [node |-> removeRebalance([node EXCEPT !.Right = sub.node]),
               nodesToRecycle |-> sub.nodesToRecycle]
    ELSE IF node.Left.nil /\ node.Right.nil
      THEN [node |-> NilNode, nodesToRecycle |-> <<node>>]
    ELSE IF node.Left.nil
      THEN [node |-> node.Right, nodesToRecycle |-> <<node>>]
    ELSE IF node.Right.nil
      THEN [node |-> node.Left, nodesToRecycle |-> <<node>>]
    ELSE LET minValue == findMinValue(node.Right)
             sub == removeNodeWithRecycling(node.Right, minValue)
         IN [node |-> removeRebalance([node EXCEPT !.Value = minValue,
                                                   !.Right = sub.node]),
             nodesToRecycle |-> sub.nodesToRecycle]

\* The callers of the concurrent tree and the order each of them works with:
\* pairwise distinct prices (TestConcurrentTxnBST/Concurrent Operations).
Callers == 1..MaxCallers
CallerTxn(c) == Transaction(c, BuyTransactionType, c)

\* No Search made yet by a caller.
NotSearched == [searched |-> FALSE]

\* NewConcurrentTxnBST(): an empty tree (bst), an empty pool; the callers
\* are about to make their first call.
ConcInit ==
    /\ pool = EmptyBag
    /\ allocated = 0
    /\ recycled = 0
    /\ rwLock = [writer |-> 0, readers |-> {}]
    /\ callerPc = [c \in Callers |-> "insert"]
    /\ found = [c \in Callers |-> NotSearched]

\* --------------------------------------------------------------- producers
\* The goroutines that create orders and send them on IncomingTrades, each a
\* sequential loop (generateRandomTrades, the WebSocket handler).
Producers == 1..MaxProducers

ProdInit ==
    /\ created = [p \in Producers |-> <<>>]
    /\ sending = [p \in Producers |-> NoTxn]

\* NewNodePool() with no node handed out yet.
PoolInit ==
    /\ held = EmptyBag
    /\ poolOp = "none"
    /\ lastGot = NilNode

\* Process start: the clock at its first reading, nothing created.
IdInit ==
    /\ now = 0
    /\ newTxns = <<>>

\* No cycle has run and no Insert was called: no order has been matched, none
\* inserted.
LifeInit ==
    /\ matchedBefore = {}
    /\ insertCount = 0

\* main: the generator has read no price and generated no order.
GenInit ==
    /\ currentPrice = MinPrice - 1
    /\ genTxn = NoTxn

\* ------------------------------------------------------------ tree harness
\* The amounts and identities the harness builds transactions from.
Prices == 1..MaxPrice
IDs == 1..MaxNodes
Txns == {Transaction(id, BuyTransactionType, a) : id \in IDs, a \in Prices}

Range(seq) == {seq[i] : i \in DOMAIN seq}
Count(seq, x) == Cardinality({i \in DOMAIN seq : seq[i] = x})

TreeInit ==
    /\ bst = NilNode
    /\ lastOp = "none"
    /\ lastArg = NoTxn
    /\ searchResult = NoTxn
    /\ ExchInit(MinPrice)
    /\ ConcInit
    /\ ProdInit
    /\ PoolInit
    /\ IdInit
    /\ LifeInit
    /\ GenInit

\* The identities not carried by any order in the tree.
FreeIDs(root) == IDs \ {t.ID : t \in Range(InorderTraversal(root))}

\* The identity a new transaction gets: identities are only ever compared for
\* equality (removeNode), so the harness hands out the smallest unused one.
FreshID(root) ==
    LET free == FreeIDs(root)
    IN CHOOSE id \in free : \A j \in free : id <= j

\* The transactions the harness may create next: any amount, a new identity.
NewTxns(root) ==
    IF FreeIDs(root) = {} THEN {}
    ELSE {Transaction(FreshID(root), BuyTransactionType, a) : a \in Prices}

\* bst.Insert(value) with a transaction whose identity is not in the tree.
InsertCall(value) ==
    /\ Len(InorderTraversal(bst)) < MaxNodes
    /\ bst' = Insert(bst, value)
    /\ lastOp' = "insert"
    /\ lastArg' = value
    /\ searchResult' = NoTxn
    /\ UNCHANGED <<exchVars, concVars, prodVars, poolVars, idVars, genVars>>

\* The call in the runs that do not number the orders.
TreeInsert(value) == InsertCall(value) /\ UNCHANGED lifeVars

\* The call in the runs that number the orders as they are inserted: the
\* identity of an order is the number of the Insert call that brought it.
TreeInsertNumbered(amount) ==
    /\ insertCount < MaxInserted
    /\ InsertCall(Transaction(insertCount + 1, BuyTransactionType, amount))
    /\ insertCount' = insertCount + 1
    /\ UNCHANGED matchedBefore

\* bst.Remove(value), for a transaction in the tree or for one that is not
\* (all absent identities behave alike, so a new one stands for them).
TreeRemove(value) ==
    /\ bst' = Remove(bst, value)
    /\ lastOp' = "remove"
    /\ lastArg' = value
    /\ searchResult' = NoTxn
    /\ UNCHANGED <<exchVars, concVars, prodVars, poolVars, idVars, lifeVars,
            genVars>>

\* bst.Search(amount), for an amount in the tree or not.
TreeSearch(amount) ==
    /\ searchResult' = Search(bst, amount)
    /\ lastOp' = "search"
    /\ lastArg' = amount
    /\ UNCHANGED bst
    /\ UNCHANGED <<exchVars, concVars, prodVars, poolVars, idVars, lifeVars,
            genVars>>

TreeNext ==
    \/ \E value \in NewTxns(bst) : TreeInsert(value)
    \/ \E value \in Range(InorderTraversal(bst)) \cup NewTxns(bst) : TreeRemove(value)
    \/ \E amount \in 0..(MaxPrice + 1) : TreeSearch(amount)

TreeSpec == TreeInit /\ [][TreeNext]_vars

\* One TxnBST under Insert calls with numbered orders and Remove calls for
\* orders in the tree.
OrderNext ==
    \/ \E amount \in Prices : TreeInsertNumbered(amount)
    \/ \E value \in Range(InorderTraversal(bst)) : TreeRemove(value)

OrderSpec == TreeInit /\ [][OrderNext]_vars

\* ---------------------------------------------- concurrent tree callers
\* Each caller runs one round of the test's loop: Insert(txn), Search(value),
\* Remove(txn), Search(value).  A call is two steps: taking rwLock, then the
\* body with the deferred unlock.

\* ConcurrentTxnBST.Insert: ct.rwLock.Lock()
ConcInsertLock(c) ==
    /\ callerPc[c] = "insert"
    /\ rwLock.writer = 0
    /\ rwLock.readers = {}
    /\ rwLock' = [rwLock EXCEPT !.writer = c]
    /\ callerPc' = [callerPc EXCEPT ![c] = "inserting"]
    /\ UNCHANGED <<pool, allocated, recycled, found>>
    /\ UNCHANGED <<treeVars, exchVars, prodVars, poolVars, idVars, lifeVars,
            genVars>>

\* ConcurrentTxnBST.Insert: insertNodeWithPool with the node nodePool.Get()
\* returns, then the deferred Unlock.
ConcInsert(c) ==
    /\ callerPc[c] = "inserting"
    /\ \E got \in NodePoolGet(pool, allocated) :
          /\ bst' = insertNodeWithPool(bst, CallerTxn(c), got.node)
          /\ pool' = got.pool
          /\ allocated' = got.allocated
    /\ rwLock' = [rwLock EXCEPT !.writer = 0]
    /\ callerPc' = [callerPc EXCEPT ![c] = "search"]
    /\ UNCHANGED <<recycled, found>>
    /\ UNCHANGED <<lastOp, lastArg, searchResult, exchVars, prodVars, poolVars, idVars,
                   lifeVars, genVars>>

\* ConcurrentTxnBST.Search: ct.rwLock.RLock(), for the Search that follows
\* the caller's Insert and for the one that follows its Remove.
ConcSearchRLock(c) ==
    /\ callerPc[c] \in {"search", "verify"}
    /\ rwLock.writer = 0
    /\ rwLock' = [rwLock EXCEPT !.readers = @ \cup {c}]
    /\ callerPc' = [callerPc EXCEPT ![c] =
                        IF callerPc[c] = "search" THEN "searching" ELSE "verifying"]
    /\ UNCHANGED <<pool, allocated, recycled, found>>
    /\ UNCHANGED <<treeVars, exchVars, prodVars, poolVars, idVars, lifeVars,
            genVars>>

\* ConcurrentTxnBST.Search: searchNode for the caller's price, then the
\* deferred RUnlock.
ConcSearch(c) ==
    /\ callerPc[c] \in {"searching", "verifying"}
    /\ found' = [found EXCEPT ![c] = searchNode(bst, CallerTxn(c).Amount)]
    /\ rwLock' = [rwLock EXCEPT !.readers = @ \ {c}]
    /\ callerPc' = [callerPc EXCEPT ![c] =
                        IF callerPc[c] = "searching" THEN "remove" ELSE "done"]
    /\ UNCHANGED <<pool, allocated, recycled>>
    /\ UNCHANGED <<treeVars, exchVars, prodVars, poolVars, idVars, lifeVars,
            genVars>>

\* ConcurrentTxnBST.Remove: ct.rwLock.Lock()
ConcRemoveLock(c) ==
    /\ callerPc[c] = "remove"
    /\ rwLock.writer = 0
    /\ rwLock.readers = {}
    /\ rwLock' = [rwLock EXCEPT !.writer = c]
    /\ callerPc' = [callerPc EXCEPT ![c] = "removing"]
    /\ UNCHANGED <<pool, allocated, recycled, found>>
    /\ UNCHANGED <<treeVars, exchVars, prodVars, poolVars, idVars, lifeVars,
            genVars>>

\* ConcurrentTxnBST.Remove: removeNodeWithRecycling, the Put of every node it
\* collected, then the deferred Unlock.
ConcRemove(c) ==
    /\ callerPc[c] = "removing"
    /\ LET removed == removeNodeWithRecycling(bst, CallerTxn(c))
           put == PutAll(pool, recycled, removed.nodesToRecycle)
       IN /\ bst' = removed.node
          /\ pool' = put.pool
          /\ recycled' = put.recycled
    /\ rwLock' = [rwLock EXCEPT !.writer = 0]
    /\ callerPc' = [callerPc EXCEPT ![c] = "verify"]
    /\ UNCHANGED <<allocated, found>>
    /\ UNCHANGED <<lastOp, lastArg, searchResult, exchVars, prodVars, poolVars, idVars,
                   lifeVars, genVars>>

ConcNext ==
    \/ \E c \in Callers : ConcInsertLock(c)
    \/ \E c \in Callers : ConcInsert(c)
    \/ \E c \in Callers : ConcSearchRLock(c)
    \/ \E c \in Callers : ConcSearch(c)
    \/ \E c \in Callers : ConcRemoveLock(c)
    \/ \E c \in Callers : ConcRemove(c)

ConcSpec == TreeInit /\ [][ConcNext]_vars

\* ------------------------------------------- one caller of the concurrent tree
\* One goroutine calling Insert, Remove and Search of one ConcurrentTxnBST
\* in any order, with any prices: no other party holds rwLock, so Lock and
\* the deferred Unlock are part of the call's one step.

\* ct.Insert(value)
SeqInsert(value) ==
    /\ Len(InorderTraversal(bst)) < MaxNodes
    /\ allocated < MaxAllocated
    /\ \E got \in NodePoolGet(pool, allocated) :
          /\ bst' = insertNodeWithPool(bst, value, got.node)
          /\ pool' = got.pool
          /\ allocated' = got.allocated
    /\ lastOp' = "insert"
    /\ lastArg' = value
    /\ searchResult' = NoTxn
    /\ UNCHANGED <<recycled, rwLock, callerPc, found>>
    /\ UNCHANGED <<exchVars, prodVars, poolVars, idVars, lifeVars, genVars>>

\* ct.Remove(value)
SeqRemove(value) ==
    /\ recycled < MaxRecycled
    /\ LET removed == removeNodeWithRecycling(bst, value)
           put == PutAll(pool, recycled, removed.nodesToRecycle)
       IN /\ bst' = removed.node
          /\ pool' = put.pool
          /\ recycled' = put.recycled
    /\ lastOp' = "remove"
    /\ lastArg' = value
    /\ searchResult' = NoTxn
    /\ UNCHANGED <<allocated, rwLock, callerPc, found>>
    /\ UNCHANGED <<exchVars, prodVars, poolVars, idVars, lifeVars, genVars>>

\* ct.Search(amount)
SeqSearch(amount) ==
    /\ searchResult' = searchNode(bst, amount)
    /\ lastOp' = "search"
    /\ lastArg' = amount
    /\ UNCHANGED bst
    /\ UNCHANGED concVars
    /\ UNCHANGED <<exchVars, prodVars, poolVars, idVars, lifeVars, genVars>>

\* The caller's orders: an unused identity, one of two prices (equal and
\* unequal prices and each rotation case come about with two).
SeqPrices == {MinPrice, MinPrice + 1}
SeqTxns(root) == {value \in NewTxns(root) : value.Amount \in SeqPrices}

SeqNext ==
    \/ \E value \in SeqTxns(bst) : SeqInsert(value)
    \/ \E value \in Range(InorderTraversal(bst)) \cup SeqTxns(bst) :
          SeqRemove(value)
    \/ \E amount \in SeqPrices \cup {MinPrice - 1} : SeqSearch(amount)

SeqSpec == TreeInit /\ [][SeqNext]_vars

\* ------------------------------------------------------ node pool harness
\* Callers of one NodePool: Get, writes to the nodes they hold, Put of a node
\* they hold, Put(nil) (TestNodePool).

\* pool.Get() by one of the callers.
PoolGet ==
    /\ BagCardinality(held) < MaxHeld
    /\ \E got \in NodePoolGet(pool, allocated) :
          /\ pool' = got.pool
          /\ allocated' = got.allocated
          /\ held' = held (+) SetToBag({got.node})
          /\ lastGot' = got.node
    /\ poolOp' = "get"
    /\ UNCHANGED <<recycled, rwLock, callerPc, found>>
    /\ UNCHANGED <<treeVars, exchVars, prodVars, idVars, lifeVars, genVars>>

\* A caller fills in a node it holds: a payload, children, a height
\* (TestNodePool/Node Reset; insertNodeWithPool and the tree after it).
PoolUse(node, left, right, h) ==
    /\ node \in BagToSet(held)
    /\ held' = (held (-) SetToBag({node}))
                  (+) SetToBag({treeNode(CallerTxn(1), left, right, h)})
    /\ poolOp' = "use"
    /\ lastGot' = NilNode
    /\ UNCHANGED <<pool, allocated, recycled, rwLock, callerPc, found>>
    /\ UNCHANGED <<treeVars, exchVars, prodVars, idVars, lifeVars, genVars>>

\* pool.Put(node) with a node the caller holds and gives up.
PoolPut(node) ==
    /\ node \in BagToSet(held)
    /\ recycled < MaxRecycled
    /\ LET put == NodePoolPut(pool, recycled, node)
       IN /\ pool' = put.pool
          /\ recycled' = put.recycled
    /\ held' = held (-) SetToBag({node})
    /\ poolOp' = "put"
    /\ lastGot' = NilNode
    /\ UNCHANGED <<allocated, rwLock, callerPc, found>>
    /\ UNCHANGED <<treeVars, exchVars, prodVars, idVars, lifeVars, genVars>>

\* pool.Put(nil)
PoolPutNil ==
    /\ LET put == NodePoolPut(pool, recycled, NilNode)
       IN /\ pool' = put.pool
          /\ recycled' = put.recycled
    /\ poolOp' = "putnil"
    /\ lastGot' = NilNode
    /\ UNCHANGED <<allocated, rwLock, callerPc, found, held>>
    /\ UNCHANGED <<treeVars, exchVars, prodVars, idVars, lifeVars, genVars>>

PoolNext ==
    \/ PoolGet
    \/ \E node \in BagToSet(held), left, right \in {NilNode, ZeroNode}, h \in 0..1 :
          PoolUse(node, left, right, h)
    \/ \E node \in BagToSet(held) : PoolPut(node)
    \/ PoolPutNil

PoolSpec == TreeInit /\ [][PoolNext]_vars

\* ------------------------------------------------------------- identities
\* generateID(txnType): fmt.Sprintf("%s-%d", txnType, timestamp), the type
\* and the decimal timestamp joined by a dash; two such strings are equal
\* exactly when both parts are, so the pair stands for the string.
generateID(txnType, timestamp) == <<txnType, timestamp>>

\* The wall clock moves on (by one unit of its resolution).
ClockTick ==
    /\ now < MaxClock
    /\ now' = now + 1
    /\ UNCHANGED newTxns
    /\ UNCHANGED <<treeVars, exchVars, concVars, prodVars, poolVars, lifeVars,
            genVars>>

\* NewTransaction(t, amount) called by some goroutine: the ID is made from
\* the type and the clock as it reads at the call.
NewTransaction(t, amount) ==
    /\ Len(newTxns) < MaxCreated
    /\ newTxns' = Append(newTxns, Transaction(generateID(t, now), t, amount))
    /\ UNCHANGED now
    /\ UNCHANGED <<treeVars, exchVars, concVars, prodVars, poolVars, lifeVars,
            genVars>>

IdNext ==
    \/ ClockTick
    \/ \E t \in {BuyTransactionType, SellTransactionType}, amount \in 1..MaxPrice :
          NewTransaction(t, amount)

IdSpec == TreeInit /\ [][IdNext]_vars

Max(a, b) == IF a > b THEN a ELSE b

\* --------------------------------------------------------- trade generator
\* rand.Intn(n): any of 0 .. n-1.
RandIntn(n) == 0..(n - 1)

\* getRandomIntForBuy(target): the set of prices it may return.
getRandomIntForBuy(target) ==
    LET min == Max(1, target - BuyBelow)
        maxPrice == Max(target, min + 1)
    IN {r + min : r \in RandIntn(maxPrice - min + 1)}

\* getRandomIntForSell(target): the set of prices it may return.
getRandomIntForSell(target) ==
    LET min == Max(1, target - SellBelow)
        maxPrice == Max(target + SellAbove, min + 1)
    IN {r + min : r \in RandIntn(maxPrice - min + 1)}

\* generateRandomTrades: currentPrice := int(stkExch.LastTradedPrice), which
\* is a price of at least 1.
GenReadPrice(price) ==
    /\ currentPrice' = price
    /\ genTxn' = NoTxn
    /\ UNCHANGED <<treeVars, exchVars, concVars, prodVars, poolVars, idVars,
                   lifeVars>>

\* generateRandomTrades: a buy order at a price getRandomIntForBuy returns.
GenBuy ==
    /\ currentPrice >= MinPrice
    /\ \E buyPrice \in getRandomIntForBuy(currentPrice) :
          genTxn' = [Type |-> BuyTransactionType, Amount |-> buyPrice]
    /\ UNCHANGED currentPrice
    /\ UNCHANGED <<treeVars, exchVars, concVars, prodVars, poolVars, idVars,
                   lifeVars>>

\* generateRandomTrades: a sell order at a price getRandomIntForSell returns.
GenSell ==
    /\ currentPrice >= MinPrice
    /\ \E sellPrice \in getRandomIntForSell(currentPrice) :
          genTxn' = [Type |-> SellTransactionType, Amount |-> sellPrice]
    /\ UNCHANGED currentPrice
    /\ UNCHANGED <<treeVars, exchVars, concVars, prodVars, poolVars, idVars,
                   lifeVars>>

GenNext ==
    \/ \E price \in MinPrice..MaxTarget : GenReadPrice(price)
    \/ GenBuy
    \/ GenSell

GenSpec == TreeInit /\ [][GenNext]_vars

\* ------------------------------------------------- properties of the tree

\* The height of a subtree as its shape gives it (nil: -1, leaf: 0).
RECURSIVE TrueHeight(_)
TrueHeight(node) ==
    IF node.nil THEN -1
    ELSE 1 + Max(TrueHeight(node.Left), TrueHeight(node.Right))

\* Every node's balance factor is -1, 0 or 1.
RECURSIVE Balanced(_)
Balanced(node) ==
    \/ node.nil
    \/ /\ TrueHeight(node.Left) - TrueHeight(node.Right) \in {-1, 0, 1}
       /\ Balanced(node.Left)
       /\ Balanced(node.Right)

IsSorted(seq) ==
    \A i \in 1..(Len(seq) - 1) : seq[i].Amount <= seq[i + 1].Amount

\* after is before with one occurrence of x taken away, as multisets.
MinusOne(before, x, after) ==
    /\ Len(after) = Len(before) - 1
    /\ \A y \in Range(before) \cup Range(after) :
          Count(after, y) = Count(before, y) - (IF y = x THEN 1 ELSE 0)

\* after is before with one occurrence of x added, as multisets.
PlusOne(before, x, after) ==
    /\ Len(after) = Len(before) + 1
    /\ \A y \in Range(before) \cup Range(after) \cup {x} :
          Count(after, y) = Count(before, y) + (IF y = x THEN 1 ELSE 0)

\* Three entries of one price and three different identities.
ThreeSamePrice(seq) ==
    /\ Len(seq) = 3
    /\ \A i, j \in 1..3 : seq[i].Amount = seq[j].Amount
    /\ \A i, j \in 1..3 : i # j => seq[i].ID # seq[j].ID

\* C1: Remove(o) of an order o contained in the tree leaves exactly the
\* previous in-order traversal minus one occurrence of o: o is gone, every
\* other order is still there once, none is duplicated.
C1_RemoveTakesExactlyTheOrder ==
    [][(lastOp' = "remove" /\ lastArg' \in Range(InorderTraversal(bst)))
          => MinusOne(InorderTraversal(bst), lastArg', InorderTraversal(bst'))]_vars

\* C2: in a tree holding three orders of one price with distinct identities,
\* Remove of any of the three removes exactly it and leaves the other two.
C2_EachDuplicateRemovable ==
    [][(/\ lastOp' = "remove"
        /\ ThreeSamePrice(InorderTraversal(bst))
        /\ lastArg' \in Range(InorderTraversal(bst)))
          => /\ Len(InorderTraversal(bst')) = 2
             /\ Range(InorderTraversal(bst')) =
                    Range(InorderTraversal(bst)) \ {lastArg'}]_vars

C7_InorderSorted == IsSorted(InorderTraversal(bst))

\* A Remove took an order of the root's price out of a tree that still holds
\* three or more orders of different prices.
C7_Witness ==
    /\ lastOp = "remove"
    /\ Len(InorderTraversal(bst)) >= 3
    /\ lastArg \notin Range(InorderTraversal(bst))
    /\ lastArg.Amount = bst.Value.Amount
    /\ \E t \in Range(InorderTraversal(bst)) : t.Amount # bst.Value.Amount

\* C8: Insert(o) always succeeds: the in-order traversal afterwards is the
\* previous one plus exactly one entry o, also when o's price is in the tree.
C8_InsertAddsExactlyOne ==
    [][lastOp' = "insert"
          => PlusOne(InorderTraversal(bst), lastArg', InorderTraversal(bst'))]_vars

\* An Insert of a price that was already in the tree has happened.
C8_Witness ==
    /\ lastOp = "insert"
    /\ Len(InorderTraversal(bst)) >= 3
    /\ \E t \in Range(InorderTraversal(bst)) :
          t # lastArg /\ t.Amount = lastArg.Amount

\* C9: Search(p) returns an order of price p that is in the tree if and only
\* if the tree holds an order of price p, and nil otherwise.
C9_SearchCorrect ==
    lastOp = "search" =>
        IF \E t \in Range(InorderTraversal(bst)) : t.Amount = lastArg
        THEN /\ searchResult # NoTxn
             /\ searchResult \in Range(InorderTraversal(bst))
             /\ searchResult.Amount = lastArg
        ELSE searchResult = NoTxn

\* A Search found an order below the root, to the right of it.
C9_Witness ==
    /\ lastOp = "search"
    /\ searchResult # NoTxn
    /\ ~bst.nil
    /\ lastArg > bst.Value.Amount

\* ------------------------------------------------------------ GetOrderBook
\* The OrderBookEntry GetOrderBook builds from an order.
OrderBookEntry(order) ==
    [ID |-> order.ID, Price |-> order.Amount, Type |-> order.Type]

\* The less functions GetOrderBook passes to sort.Slice: highest price first
\* for the buy entries (desc), lowest price first for the sell entries.
Less(desc, a, b) == IF desc THEN a.Price > b.Price ELSE a.Price < b.Price

Swap(data, i, j) ==
    [data EXCEPT ![i] = data[j], ![j] = data[i]]

\* sort.Slice is not stable and its result on equal prices depends on the Go
\* release: since Go 1.19 (pdqsort) a slice of at most 12 elements is sorted
\* by insertion sort alone; before (quickSort) a slice of at most 12
\* elements gets one ShellSort pass with gap 6 and then insertion sort.
\* Both are modelled, for the slices of at most 12 elements they cover.
SortImpls == {"pdqsort", "quickSort"}

RECURSIVE SinkDown(_, _, _)
SinkDown(data, j, desc) ==
    IF j > 1 /\ Less(desc, data[j], data[j - 1])
    THEN SinkDown(Swap(data, j, j - 1), j - 1, desc)
    ELSE data

RECURSIVE insertionSort(_, _, _)
insertionSort(data, i, desc) ==
    IF i > Len(data) THEN data
    ELSE insertionSort(SinkDown(data, i, desc), i + 1, desc)

RECURSIVE shellPass(_, _, _)
shellPass(data, i, desc) ==
    IF i > Len(data) THEN data
    ELSE shellPass(IF Less(desc, data[i], data[i - 6])
                     THEN Swap(data, i, i - 6) ELSE data,
                   i + 1, desc)

sortSlice(data, desc, impl) ==
    IF impl = "pdqsort" THEN insertionSort(data, 2, desc)
    ELSE IF Len(data) > 1 THEN insertionSort(shellPass(data, 7, desc), 2, desc)
    ELSE data

\* GetOrderBook keeping every entry.
TruncateNothing(entries) == entries

\* GetOrderBook: if len(entries) > 10 { entries = entries[:10] }
Truncate(entries) ==
    IF Len(entries) > OrderBookDepth
    THEN SubSeq(entries, 1, OrderBookDepth) ELSE entries

Entries(root) ==
    [i \in 1..Len(InorderTraversal(root)) |->
        OrderBookEntry(InorderTraversal(root)[i])]

\* GetOrderBook, without the Timestamp.
GetOrderBook(buyQ, sellQ, impl) ==
    [BuyOrders |-> Truncate(sortSlice(Entries(buyQ), TRUE, impl)),
     SellOrders |-> Truncate(sortSlice(Entries(sellQ), FALSE, impl))]

\* ============================================================== Exchange
\* The initial prices NewExchange is called with (TestNewExchange: a
\* positive one, zero, a negative one).
InitLtps == (0 - 1)..1

\* The orders the producers send: either side, amounts from 0 (invalid).
OrderTypes == {BuyTransactionType, SellTransactionType}
OrderAmounts == 0..MaxPrice

Reverse(seq) == [i \in 1..Len(seq) |-> seq[Len(seq) + 1 - i]]

\* The inner loop with the comparison turned round (buy price <= sell price).
FirstMatchNotAbove(bTxn, sellOrders) ==
    IF \E i \in 1..Len(sellOrders) : bTxn.Amount <= sellOrders[i].Amount
    THEN CHOOSE i \in 1..Len(sellOrders) :
            /\ bTxn.Amount <= sellOrders[i].Amount
            /\ \A j \in 1..(i - 1) : ~(bTxn.Amount <= sellOrders[j].Amount)
    ELSE 0

\* The inner loop taking the first sell order whatever its price.
FirstMatchAnyPrice(bTxn, sellOrders) == IF sellOrders # <<>> THEN 1 ELSE 0

\* Index of the first sell order the buy order bTxn matches, 0 if none.
FirstMatch(bTxn, sellOrders) ==
    IF \E i \in 1..Len(sellOrders) : bTxn.Amount >= sellOrders[i].Amount
    THEN CHOOSE i \in 1..Len(sellOrders) :
            /\ bTxn.Amount >= sellOrders[i].Amount
            /\ \A j \in 1..(i - 1) : ~(bTxn.Amount >= sellOrders[j].Amount)
    ELSE 0

RemoveAt(seq, i) == SubSeq(seq, 1, i - 1) \o SubSeq(seq, i + 1, Len(seq))

\* The pairing loop leaving a matched sell order in the snapshot.
RECURSIVE FindMatchingPairsKeepsSell(_, _)
FindMatchingPairsKeepsSell(buyOrders, sellOrders) ==
    IF buyOrders = <<>> THEN <<>>
    ELSE LET bTxn == Head(buyOrders)
             i == FirstMatch(bTxn, sellOrders)
         IN IF i = 0
            THEN FindMatchingPairsKeepsSell(Tail(buyOrders), sellOrders)
            ELSE <<[buy |-> bTxn, sell |-> sellOrders[i]]>>
                 \o FindMatchingPairsKeepsSell(Tail(buyOrders), sellOrders)

\* The pairing loop of ProcessTrades over the two snapshots.
RECURSIVE FindMatchingPairs(_, _)
FindMatchingPairs(buyOrders, sellOrders) ==
    IF buyOrders = <<>> THEN <<>>
    ELSE LET bTxn == Head(buyOrders)
             i == FirstMatch(bTxn, sellOrders)
         IN IF i = 0
            THEN FindMatchingPairs(Tail(buyOrders), sellOrders)
            ELSE <<[buy |-> bTxn, sell |-> sellOrders[i]]>>
                 \o FindMatchingPairs(Tail(buyOrders), RemoveAt(sellOrders, i))

\* notifyPriceUpdate starting a goroutine for the first callback only.
notifyFirstCallbackOnly(callbacks, price) ==
    IF callbacks = <<>> THEN <<>>
    ELSE <<[callback |-> callbacks[1], price |-> price]>>

\* notifyPriceUpdate(price): under callbacksLock, one go callback(price) per
\* registered callback, in registration order; the result is the sequence
\* of goroutines started.
notifyPriceUpdate(callbacks, price) ==
    [i \in 1..Len(callbacks) |-> [callback |-> callbacks[i], price |-> price]]

\* ProcessTrades taking the buy price of the pair as the trade price.
TradePriceOfBuy(pair) ==
    IF pair.buy.Amount < MinPrice THEN MinPrice ELSE pair.buy.Amount

\* The price ProcessTrades assigns for a pair: the sell price, at least 1.
TradePrice(pair) ==
    IF pair.sell.Amount < MinPrice THEN MinPrice ELSE pair.sell.Amount

Init ==
    /\ bst = NilNode
    /\ lastOp = "none"
    /\ lastArg = NoTxn
    /\ searchResult = NoTxn
    /\ \E ltp \in InitLtps : ExchInit(ltp)
    /\ ConcInit
    /\ ProdInit
    /\ PoolInit
    /\ IdInit
    /\ LifeInit
    /\ GenInit

\* AcceptTrades with the price validation left out.
RejectedNever(txn) == FALSE

\* AcceptTrades: the validation of a received transaction (txn.Amount < 1).
Rejected(txn) == txn.Amount < MinPrice

\* A producer creates a transaction and sends it on IncomingTrades; the
\* channel is unbuffered, so the send completes when AcceptTrades receives.
\* AcceptTrades drops an amount below 1 (continue: back to the receive) and
\* goes on to lock for the others.
SendReceive(type, amount) ==
    /\ acceptPc = "recv"
    /\ nextId' = nextId + 1
    /\ acceptTxn' = Transaction(nextId + 1, type, amount)
    /\ acceptPc' = IF Rejected(Transaction(nextId + 1, type, amount))
                      THEN "recv" ELSE "lock"
    /\ UNCHANGED <<LastTradedPrice, BuyQ, SellQ, queueLock, initLtp, procPc,
                   acquirer, orphans, matchedPairs, cycleMatched, bookPc,
                   cyclePairs, priceUpdateCallbacks, pending, notified,
                   cycleCallbacks>>
    /\ orderBook' = NoOrderBook
    /\ priceRead' = NoPrice
    /\ UNCHANGED <<treeVars, concVars, prodVars, poolVars, idVars, lifeVars,
            genVars>>

\* AcceptTrades going on to the insert without waiting for queueLock.
AcceptLockNoWait ==
    /\ acceptPc = "lock"
    /\ queueLock' = "accept"
    /\ acceptPc' = "insert"
    /\ UNCHANGED <<LastTradedPrice, BuyQ, SellQ, initLtp, nextId, acceptTxn,
                   procPc, acquirer, orphans, matchedPairs, cycleMatched, bookPc,
                   cyclePairs, priceUpdateCallbacks, pending, notified,
                   cycleCallbacks>>
    /\ orderBook' = NoOrderBook
    /\ priceRead' = NoPrice
    /\ UNCHANGED <<treeVars, concVars, prodVars, poolVars, idVars, lifeVars,
            genVars>>

\* AcceptTrades: exch.queueLock.Lock()
AcceptLock ==
    /\ acceptPc = "lock"
    /\ queueLock = "free"
    /\ queueLock' = "accept"
    /\ acceptPc' = "insert"
    /\ UNCHANGED <<LastTradedPrice, BuyQ, SellQ, initLtp, nextId, acceptTxn,
                   procPc, acquirer, orphans, matchedPairs, cycleMatched, bookPc,
                   cyclePairs, priceUpdateCallbacks, pending, notified,
                   cycleCallbacks>>
    /\ orderBook' = NoOrderBook
    /\ priceRead' = NoPrice
    /\ UNCHANGED <<treeVars, concVars, prodVars, poolVars, idVars, lifeVars,
            genVars>>

\* Ingestion that files every order under the buy side.
AcceptInsertBuyBook ==
    /\ acceptPc = "insert"
    /\ BuyQ' = Insert(BuyQ, acceptTxn)
    /\ UNCHANGED SellQ
    /\ queueLock' = "free"
    /\ acceptPc' = "recv"
    /\ UNCHANGED <<LastTradedPrice, initLtp, nextId, acceptTxn, procPc,
                   acquirer, orphans, matchedPairs, cycleMatched, bookPc,
                   cyclePairs, priceUpdateCallbacks, pending, notified,
                   cycleCallbacks>>
    /\ orderBook' = NoOrderBook
    /\ priceRead' = NoPrice
    /\ UNCHANGED <<treeVars, concVars, prodVars, poolVars, idVars, lifeVars,
            genVars>>

\* AcceptTrades: insert into the book of the side, then Unlock.
AcceptInsert ==
    /\ acceptPc = "insert"
    /\ IF acceptTxn.Type = BuyTransactionType
         THEN BuyQ' = Insert(BuyQ, acceptTxn) /\ UNCHANGED SellQ
       ELSE IF acceptTxn.Type = SellTransactionType
         THEN SellQ' = Insert(SellQ, acceptTxn) /\ UNCHANGED BuyQ
       ELSE UNCHANGED <<BuyQ, SellQ>>
    /\ queueLock' = "free"
    /\ acceptPc' = "recv"
    /\ UNCHANGED <<LastTradedPrice, initLtp, nextId, acceptTxn, procPc,
                   acquirer, orphans, matchedPairs, cycleMatched, bookPc,
                   cyclePairs, priceUpdateCallbacks, pending, notified,
                   cycleCallbacks>>
    /\ orderBook' = NoOrderBook
    /\ priceRead' = NoPrice
    /\ UNCHANGED <<treeVars, concVars, prodVars, poolVars, idVars, lifeVars,
            genVars>>

\* ProcessTrades: the ticker fires and the cycle starts the goroutine that
\* locks queueLock on its behalf.
ProcTick ==
    /\ procPc = "tick"
    /\ procPc' = "select"
    /\ acquirer' = "waiting"
    /\ cycleMatched' = {}
    /\ cyclePairs' = <<>>
    /\ cycleCallbacks' = Len(priceUpdateCallbacks)
    /\ UNCHANGED <<LastTradedPrice, BuyQ, SellQ, queueLock, initLtp, nextId,
                   acceptPc, acceptTxn, orphans, matchedPairs, bookPc,
                   priceUpdateCallbacks, pending, notified>>
    /\ orderBook' = NoOrderBook
    /\ priceRead' = NoPrice
    /\ UNCHANGED <<treeVars, concVars, prodVars, poolVars, idVars, lifeVars,
            genVars>>

\* The cycle's goroutine: exch.queueLock.Lock(); lockAcquired <- true
AcquirerLock ==
    /\ acquirer = "waiting"
    /\ queueLock = "free"
    /\ queueLock' = "process"
    /\ acquirer' = "sent"
    /\ UNCHANGED <<LastTradedPrice, BuyQ, SellQ, initLtp, nextId, acceptPc,
                   acceptTxn, procPc, orphans, matchedPairs, cycleMatched, bookPc,
                   cyclePairs, priceUpdateCallbacks, pending, notified,
                   cycleCallbacks>>
    /\ orderBook' = NoOrderBook
    /\ priceRead' = NoPrice
    /\ UNCHANGED <<treeVars, concVars, prodVars, poolVars, idVars, lifeVars,
            genVars>>

\* ProcessTrades: case <-lockAcquired, then the two snapshots and the
\* pairing loop.
SnapshotsAndPairs ==
    /\ procPc = "select"
    /\ acquirer = "sent"
    /\ LET buyOrders == Reverse(InorderTraversal(BuyQ))
           sellOrders == InorderTraversal(SellQ)
           pairs == FindMatchingPairs(buyOrders, sellOrders)
       IN /\ matchedPairs' = pairs
          /\ cyclePairs' = pairs
          /\ cycleMatched' = {pairs[i].buy : i \in DOMAIN pairs}
                               \cup {pairs[i].sell : i \in DOMAIN pairs}
    /\ procPc' = "pairs"
    /\ acquirer' = "none"
    /\ UNCHANGED <<LastTradedPrice, BuyQ, SellQ, queueLock, initLtp, nextId,
                   acceptPc, acceptTxn, orphans, bookPc, priceUpdateCallbacks,
                   pending, notified, cycleCallbacks>>
    /\ orderBook' = NoOrderBook
    /\ priceRead' = NoPrice
    /\ UNCHANGED <<treeVars, concVars, prodVars, poolVars, idVars, genVars>>

\* The step above in the runs that keep no record of the earlier cycles.
ProcAcquired == SnapshotsAndPairs /\ UNCHANGED lifeVars

\* The same step in the runs that follow each order through its life: the
\* orders of the cycle's pairs are added to the record.
ProcAcquiredRecorded ==
    /\ SnapshotsAndPairs
    /\ matchedBefore' = matchedBefore \cup cycleMatched'
    /\ UNCHANGED insertCount

\* The timeout case without its continue: the cycle goes on to the snapshots
\* and the pairing loop although it does not hold the lock.
ProcTimeoutFallsThrough ==
    /\ procPc = "select"
    /\ acquirer = "waiting"
    /\ queueLock # "free"
    /\ LET pairs == FindMatchingPairs(Reverse(InorderTraversal(BuyQ)),
                                      InorderTraversal(SellQ))
       IN /\ matchedPairs' = pairs
          /\ cyclePairs' = pairs
          /\ cycleMatched' = {pairs[i].buy : i \in DOMAIN pairs}
                               \cup {pairs[i].sell : i \in DOMAIN pairs}
    /\ procPc' = "pairs"
    /\ acquirer' = "none"
    /\ orphans' = IF orphans < MaxOrphans THEN orphans + 1 ELSE orphans
    /\ UNCHANGED <<LastTradedPrice, BuyQ, SellQ, queueLock, initLtp, nextId,
                   acceptPc, acceptTxn, bookPc, priceUpdateCallbacks, pending,
                   notified, cycleCallbacks>>
    /\ orderBook' = NoOrderBook
    /\ priceRead' = NoPrice
    /\ UNCHANGED <<treeVars, concVars, prodVars, poolVars, idVars, lifeVars,
            genVars>>

\* ProcessTrades: case <-time.After(500ms), taken while the cycle's goroutine
\* is still blocked in Lock because another party holds queueLock; the cycle
\* is skipped and the goroutine is left behind, still waiting for the lock.
\* Only whether such goroutines exist matters, so the count saturates.
ProcTimeout ==
    /\ procPc = "select"
    /\ acquirer = "waiting"
    /\ queueLock # "free"
    /\ procPc' = "tick"
    /\ acquirer' = "none"
    /\ orphans' = IF orphans < MaxOrphans THEN orphans + 1 ELSE orphans
    /\ cycleCallbacks' = 0
    /\ UNCHANGED <<LastTradedPrice, BuyQ, SellQ, queueLock, initLtp, nextId,
                   acceptPc, acceptTxn, matchedPairs, cycleMatched, bookPc,
                   cyclePairs, priceUpdateCallbacks, pending, notified>>
    /\ orderBook' = NoOrderBook
    /\ priceRead' = NoPrice
    /\ UNCHANGED <<treeVars, concVars, prodVars, poolVars, idVars, lifeVars,
            genVars>>

\* A goroutine left behind by a skipped cycle gets the lock; it sends on its
\* own buffered lockAcquired channel, which nobody reads, and exits: nothing
\* unlocks queueLock after that.
OrphanLock ==
    /\ orphans > 0
    /\ queueLock = "free"
    /\ queueLock' = "orphan"
    /\ orphans' = orphans - 1
    /\ UNCHANGED <<LastTradedPrice, BuyQ, SellQ, initLtp, nextId, acceptPc,
                   acceptTxn, procPc, acquirer, matchedPairs, cycleMatched, bookPc,
                   cyclePairs, priceUpdateCallbacks, pending, notified,
                   cycleCallbacks>>
    /\ orderBook' = NoOrderBook
    /\ priceRead' = NoPrice
    /\ UNCHANGED <<treeVars, concVars, prodVars, poolVars, idVars, lifeVars,
            genVars>>

\* ProcessTrades: one iteration of the loop over matchedPairs.
ProcPair ==
    /\ procPc = "pairs"
    /\ matchedPairs # <<>>
    /\ LET pair == Head(matchedPairs)
           started == notifyPriceUpdate(priceUpdateCallbacks, TradePrice(pair))
       IN /\ LastTradedPrice' = TradePrice(pair)
          /\ notified' = notified \o started
          /\ pending' = pending \cup {started[i].callback : i \in DOMAIN started}
          /\ BuyQ' = Remove(BuyQ, pair.buy)
          /\ SellQ' = Remove(SellQ, pair.sell)
    /\ matchedPairs' = Tail(matchedPairs)
    /\ UNCHANGED <<queueLock, initLtp, nextId, acceptPc, acceptTxn, procPc,
                   acquirer, orphans, cycleMatched, bookPc, cyclePairs,
                   priceUpdateCallbacks, cycleCallbacks>>
    /\ orderBook' = NoOrderBook
    /\ priceRead' = NoPrice
    /\ UNCHANGED <<treeVars, concVars, prodVars, poolVars, idVars, lifeVars,
            genVars>>

\* The Unlock held back until the callbacks the cycle started have returned
\* (callbacks called in line, or waited for before the lock is released).
ProcUnlockAfterCallbacks ==
    /\ procPc = "pairs"
    /\ matchedPairs = <<>>
    /\ pending = {}
    /\ queueLock' = "free"
    /\ procPc' = "tick"
    /\ cycleMatched' = {}
    /\ cyclePairs' = <<>>
    /\ notified' = <<>>
    /\ cycleCallbacks' = 0
    /\ UNCHANGED <<LastTradedPrice, BuyQ, SellQ, initLtp, nextId, acceptPc,
                   acceptTxn, acquirer, orphans, matchedPairs, bookPc,
                   priceUpdateCallbacks, pending>>
    /\ orderBook' = NoOrderBook
    /\ priceRead' = NoPrice
    /\ UNCHANGED <<treeVars, concVars, prodVars, poolVars, idVars, lifeVars,
            genVars>>

\* ProcessTrades: exch.queueLock.Unlock() at the end of the cycle.
ProcUnlock ==
    /\ procPc = "pairs"
    /\ matchedPairs = <<>>
    /\ queueLock' = "free"
    /\ procPc' = "tick"
    /\ cycleMatched' = {}
    /\ cyclePairs' = <<>>
    /\ notified' = <<>>
    /\ cycleCallbacks' = 0
    /\ UNCHANGED <<LastTradedPrice, BuyQ, SellQ, initLtp, nextId, acceptPc,
                   acceptTxn, acquirer, orphans, matchedPairs, bookPc,
                   priceUpdateCallbacks, pending>>
    /\ orderBook' = NoOrderBook
    /\ priceRead' = NoPrice
    /\ UNCHANGED <<treeVars, concVars, prodVars, poolVars, idVars, lifeVars,
            genVars>>

\* A caller enters GetOrderBook.
BookCall ==
    /\ bookPc = "idle"
    /\ bookPc' = "lock"
    /\ UNCHANGED <<LastTradedPrice, BuyQ, SellQ, queueLock, initLtp, nextId,
                   acceptPc, acceptTxn, procPc, acquirer, orphans, matchedPairs,
                   cycleMatched, cyclePairs, priceUpdateCallbacks, pending,
                   notified, cycleCallbacks>>
    /\ orderBook' = NoOrderBook
    /\ priceRead' = NoPrice
    /\ UNCHANGED <<treeVars, concVars, prodVars, poolVars, idVars, lifeVars,
            genVars>>

\* GetOrderBook: exch.queueLock.Lock()
BookLock ==
    /\ bookPc = "lock"
    /\ queueLock = "free"
    /\ queueLock' = "book"
    /\ bookPc' = "read"
    /\ UNCHANGED <<LastTradedPrice, BuyQ, SellQ, initLtp, nextId, acceptPc,
                   acceptTxn, procPc, acquirer, orphans, matchedPairs, cycleMatched,
                   cyclePairs, priceUpdateCallbacks, pending, notified,
                   cycleCallbacks>>
    /\ orderBook' = NoOrderBook
    /\ priceRead' = NoPrice
    /\ UNCHANGED <<treeVars, concVars, prodVars, poolVars, idVars, lifeVars,
            genVars>>

\* GetOrderBook: the traversals, the sorts and the truncation, then the
\* deferred Unlock and the return; impl is the sort.Slice of the Go release
\* the program was built with.
BookReturn(impl) ==
    /\ bookPc = "read"
    /\ orderBook' = GetOrderBook(BuyQ, SellQ, impl)
    /\ priceRead' = NoPrice
    /\ queueLock' = "free"
    /\ bookPc' = "idle"
    /\ UNCHANGED <<LastTradedPrice, BuyQ, SellQ, initLtp, nextId, acceptPc,
                   acceptTxn, procPc, acquirer, orphans, matchedPairs, cycleMatched,
                   cyclePairs, priceUpdateCallbacks, pending, notified,
                   cycleCallbacks>>
    /\ UNCHANGED <<treeVars, concVars, prodVars, poolVars, idVars, lifeVars,
            genVars>>

\* RegisterPriceUpdateCallback(callback): appends under callbacksLock; the
\* callbacks are told apart by the order of their registration.
RegisterPriceUpdateCallback ==
    /\ procPc # "dead"
    /\ Len(priceUpdateCallbacks) < MaxSubscribers
    /\ priceUpdateCallbacks' =
          Append(priceUpdateCallbacks, Len(priceUpdateCallbacks) + 1)
    /\ UNCHANGED <<LastTradedPrice, BuyQ, SellQ, queueLock, initLtp, nextId,
                   acceptPc, acceptTxn, procPc, acquirer, orphans, matchedPairs,
                   cycleMatched, bookPc, cyclePairs, pending, notified,
                   cycleCallbacks>>
    /\ orderBook' = NoOrderBook
    /\ priceRead' = NoPrice
    /\ UNCHANGED <<treeVars, concVars, prodVars, poolVars, idVars, lifeVars,
            genVars>>

\* A goroutine started by notifyPriceUpdate runs its callback, which returns.
\* Only whether a callback has such a goroutine is kept, not how many nor
\* with which prices (notified has the prices).
CallbackReturn(callback) ==
    /\ callback \in pending
    /\ pending' = pending \ {callback}
    /\ UNCHANGED <<LastTradedPrice, BuyQ, SellQ, queueLock, initLtp, nextId,
                   acceptPc, acceptTxn, procPc, acquirer, orphans, matchedPairs,
                   cycleMatched, bookPc, cyclePairs, priceUpdateCallbacks,
                   notified, cycleCallbacks>>
    /\ orderBook' = NoOrderBook
    /\ priceRead' = NoPrice
    /\ UNCHANGED <<treeVars, concVars, prodVars, poolVars, idVars, lifeVars,
            genVars>>

\* A goroutine started by notifyPriceUpdate runs its callback, which panics.
\* Nothing recovers a panic in that goroutine, so the Go runtime terminates
\* the process: every goroutine is gone, whatever it held stays as it is.
CallbackPanic(callback) ==
    /\ callback \in pending
    /\ pending' = {}
    /\ acceptPc' = "dead"
    /\ procPc' = "dead"
    /\ bookPc' = "dead"
    /\ acquirer' = "none"
    /\ orphans' = 0
    /\ matchedPairs' = <<>>
    /\ cycleMatched' = {}
    /\ cyclePairs' = <<>>
    /\ notified' = <<>>
    /\ cycleCallbacks' = 0
    /\ UNCHANGED <<LastTradedPrice, BuyQ, SellQ, queueLock, initLtp, nextId,
                   acceptTxn, priceUpdateCallbacks>>
    /\ orderBook' = NoOrderBook
    /\ priceRead' = NoPrice
    /\ UNCHANGED <<treeVars, concVars, prodVars, poolVars, idVars, lifeVars,
            genVars>>

\* A reader of the price loads exch.LastTradedPrice: the /api/price handler,
\* the WebSocket handler, the order generator.  None of them takes a lock.
\* The load may run while ProcessTrades stores; the field is one aligned
\* 32-bit word, so the load yields the value before or after the store,
\* which are the values the steps before and after ProcPair yield here.
PriceRead ==
    /\ procPc # "dead"
    /\ priceRead' = LastTradedPrice
    /\ UNCHANGED <<LastTradedPrice, BuyQ, SellQ, queueLock, initLtp, nextId,
                   acceptPc, acceptTxn, procPc, acquirer, orphans, matchedPairs,
                   cycleMatched, bookPc, cyclePairs, priceUpdateCallbacks,
                   pending, notified, cycleCallbacks, orderBook>>
    /\ UNCHANGED <<treeVars, concVars, prodVars, poolVars, idVars, lifeVars,
            genVars>>

\* A producer that lets go of an order it could not send yet and creates
\* the next one (a send that does not block).
ProducerCreateNoWait(p, type, amount) ==
    /\ acceptPc # "dead"
    /\ nextId' = nextId + 1
    /\ created' = [created EXCEPT ![p] = Append(@, Transaction(nextId + 1, type, amount))]
    /\ sending' = [sending EXCEPT ![p] = Transaction(nextId + 1, type, amount)]
    /\ UNCHANGED <<LastTradedPrice, BuyQ, SellQ, queueLock, initLtp, acceptPc,
                   acceptTxn, procPc, acquirer, orphans, matchedPairs,
                   cycleMatched, bookPc, cyclePairs, priceUpdateCallbacks,
                   pending, notified, cycleCallbacks>>
    /\ orderBook' = NoOrderBook
    /\ priceRead' = NoPrice
    /\ UNCHANGED <<treeVars, concVars, poolVars, idVars, lifeVars, genVars>>

\* Producer p creates its next order (NewTransaction) and starts the send
\* on the unbuffered IncomingTrades, where it blocks until AcceptTrades
\* receives; it has no other order under way.
ProducerCreate(p, type, amount) ==
    /\ acceptPc # "dead"
    /\ sending[p] = NoTxn
    /\ nextId' = nextId + 1
    /\ created' = [created EXCEPT ![p] = Append(@, Transaction(nextId + 1, type, amount))]
    /\ sending' = [sending EXCEPT ![p] = Transaction(nextId + 1, type, amount)]
    /\ UNCHANGED <<LastTradedPrice, BuyQ, SellQ, queueLock, initLtp, acceptPc,
                   acceptTxn, procPc, acquirer, orphans, matchedPairs,
                   cycleMatched, bookPc, cyclePairs, priceUpdateCallbacks,
                   pending, notified, cycleCallbacks>>
    /\ orderBook' = NoOrderBook
    /\ priceRead' = NoPrice
    /\ UNCHANGED <<treeVars, concVars, poolVars, idVars, lifeVars, genVars>>

\* AcceptTrades receives the order producer p is sending (which of several
\* blocked senders is served is the channel's choice); the send completes.
\* AcceptTrades drops an amount below 1 and goes on to lock for the others.
ProducerSend(p) ==
    /\ acceptPc = "recv"
    /\ sending[p] # NoTxn
    /\ acceptTxn' = sending[p]
    /\ acceptPc' = IF Rejected(sending[p]) THEN "recv" ELSE "lock"
    /\ sending' = [sending EXCEPT ![p] = NoTxn]
    /\ UNCHANGED <<LastTradedPrice, BuyQ, SellQ, queueLock, initLtp, nextId,
                   procPc, acquirer, orphans, matchedPairs, cycleMatched, bookPc,
                   cyclePairs, priceUpdateCallbacks, pending, notified,
                   cycleCallbacks>>
    /\ orderBook' = NoOrderBook
    /\ priceRead' = NoPrice
    /\ UNCHANGED <<treeVars, concVars, created, poolVars, idVars, lifeVars,
            genVars>>

Next ==
    \/ \E type \in OrderTypes, amount \in OrderAmounts :
          nextId < MaxOrders /\ SendReceive(type, amount)
    \/ AcceptLock
    \/ AcceptInsert
    \/ ProcTick
    \/ AcquirerLock
    \/ ProcAcquired
    \/ ProcTimeout
    \/ OrphanLock
    \/ ProcPair
    \/ ProcUnlock
    \/ BookCall
    \/ BookLock
    \/ \E impl \in SortImpls : BookReturn(impl)

Spec == Init /\ [][Next]_vars

\* Every goroutine that can run does run; sync.Mutex hands the lock to a
\* waiter that has waited long (starvation mode), so a goroutine blocked in
\* Lock gets the lock if it is free again and again; the timer of a waiting
\* cycle fires.  Producers and GetOrderBook callers need not act.
Fairness ==
    /\ SF_vars(AcceptLock)
    /\ WF_vars(AcceptInsert)
    /\ WF_vars(ProcTick)
    /\ SF_vars(AcquirerLock)
    /\ WF_vars(ProcAcquired)
    /\ WF_vars(ProcTimeout)
    /\ SF_vars(OrphanLock)
    /\ WF_vars(ProcPair)
    /\ WF_vars(ProcUnlock)
    /\ SF_vars(BookLock)
    /\ WF_vars(\E impl \in SortImpls : BookReturn(impl))

\* The engine started with a valid initial price.
LiveInit ==
    /\ bst = NilNode
    /\ lastOp = "none"
    /\ lastArg = NoTxn
    /\ searchResult = NoTxn
    /\ ExchInit(MinPrice)
    /\ ConcInit
    /\ ProdInit
    /\ PoolInit
    /\ IdInit
    /\ LifeInit
    /\ GenInit

\* The engine fed valid orders of one price only: the runs of Spec on which
\* the liveness properties are checked.
LiveNext ==
    \/ \E type \in OrderTypes :
          nextId < MaxOrders /\ SendReceive(type, MinPrice)
    \/ AcceptLock
    \/ AcceptInsert
    \/ ProcTick
    \/ AcquirerLock
    \/ ProcAcquired
    \/ ProcTimeout
    \/ OrphanLock
    \/ ProcPair
    \/ ProcUnlock
    \/ BookCall
    \/ BookLock
    \/ \E impl \in SortImpls : BookReturn(impl)

FairSpec == LiveInit /\ [][LiveNext]_vars /\ Fairness

\* The engine fed valid orders of every price, one order more than in Spec so
\* that a cycle can find two pairs, and no GetOrderBook caller: the runs on
\* which the properties of the pairing are checked.
MatchNext ==
    \/ \E type \in OrderTypes, amount \in Prices :
          nextId < MaxMatchOrders /\ SendReceive(type, amount)
    \/ AcceptLock
    \/ AcceptInsert
    \/ ProcTick
    \/ AcquirerLock
    \/ ProcAcquired
    \/ ProcTimeout
    \/ OrphanLock
    \/ ProcPair
    \/ ProcUnlock

MatchSpec == LiveInit /\ [][MatchNext]_vars

\* The runs in which ingestion and matching take turns (an order is sent only
\* between two cycles, a cycle starts only when ingestion is idle), fed sell
\* orders of every price and buy orders that bid the highest price: long
\* enough runs to see what earlier cycles leave in the books.
SerialNext ==
    \/ \E amount \in Prices :
          /\ nextId < MaxSerialOrders
          /\ procPc = "tick"
          /\ SendReceive(SellTransactionType, amount)
    \/ /\ nextId < MaxSerialOrders
       /\ procPc = "tick"
       /\ SendReceive(BuyTransactionType, MaxPrice)
    \/ AcceptLock
    \/ AcceptInsert
    \/ acceptPc = "recv" /\ ProcTick
    \/ AcquirerLock
    \/ ProcAcquired
    \/ ProcPair
    \/ ProcUnlock

SerialSpec == LiveInit /\ [][SerialNext]_vars

\* The engine with subscribers: callbacks are registered at any time, the
\* goroutines that run them return or panic; fed valid orders of the lowest
\* and of the highest price, no GetOrderBook caller.
NotifyNext ==
    \/ \E type \in OrderTypes, amount \in {MinPrice, MaxPrice} :
          nextId < MaxMatchOrders /\ SendReceive(type, amount)
    \/ AcceptLock
    \/ AcceptInsert
    \/ ProcTick
    \/ AcquirerLock
    \/ ProcAcquired
    \/ ProcTimeout
    \/ OrphanLock
    \/ ProcPair
    \/ ProcUnlock
    \/ RegisterPriceUpdateCallback
    \/ \E callback \in pending : CallbackReturn(callback)
    \/ \E callback \in pending : CallbackPanic(callback)

NotifySpec == LiveInit /\ [][NotifyNext]_vars

\* The engine's ingestion and GetOrderBook callers, fed orders of one side
\* whose prices never fall from one order to the next: long enough runs to
\* fill a book beyond the depth GetOrderBook returns.
BookNext ==
    \/ \E type \in OrderTypes, amount \in Prices :
          /\ nextId < MaxBookOrders
          /\ acceptTxn # NoTxn => (type = acceptTxn.Type /\ amount >= acceptTxn.Amount)
          /\ SendReceive(type, amount)
    \/ AcceptLock
    \/ AcceptInsert
    \/ BookCall
    \/ BookLock
    \/ \E impl \in SortImpls : BookReturn(impl)

BookSpec == LiveInit /\ [][BookNext]_vars

\* The engine with subscribers whose callbacks return late or never: fed
\* valid orders of the lowest price, callbacks registered at any time, no
\* GetOrderBook caller.
BlockNext ==
    \/ \E type \in OrderTypes :
          nextId < MaxMatchOrders /\ SendReceive(type, MinPrice)
    \/ AcceptLock
    \/ AcceptInsert
    \/ ProcTick
    \/ AcquirerLock
    \/ ProcAcquired
    \/ ProcTimeout
    \/ OrphanLock
    \/ ProcPair
    \/ ProcUnlock
    \/ RegisterPriceUpdateCallback
    \/ \E callback \in pending : CallbackReturn(callback)

\* The matching loop runs when it can (it holds queueLock from the snapshots
\* to the Unlock, so nothing but its own code can hold it up); nothing makes
\* a callback return, a producer send or a caller register.
BlockFairness ==
    /\ WF_vars(ProcPair)
    /\ WF_vars(ProcUnlock)

BlockSpec == LiveInit /\ [][BlockNext]_vars /\ BlockFairness

\* The engine of MatchSpec with readers of the last traded price.
PriceNext ==
    \/ \E type \in OrderTypes, amount \in Prices :
          nextId < MaxOrders /\ SendReceive(type, amount)
    \/ AcceptLock
    \/ AcceptInsert
    \/ ProcTick
    \/ AcquirerLock
    \/ ProcAcquired
    \/ ProcTimeout
    \/ OrphanLock
    \/ ProcPair
    \/ ProcUnlock
    \/ PriceRead

PriceSpec == LiveInit /\ [][PriceNext]_vars

\* Several producers and AcceptTrades, no matching loop: the books only
\* grow, so an order is in its book from its insertion on.  The producers
\* send buy and sell orders of the lowest valid price and of the invalid
\* price below it.
FifoNext ==
    \/ \E p \in Producers, type \in OrderTypes, amount \in {MinPrice - 1, MinPrice} :
          nextId < MaxOrders /\ ProducerCreate(p, type, amount)
    \/ \E p \in Producers : ProducerSend(p)
    \/ AcceptLock
    \/ AcceptInsert

FifoSpec == LiveInit /\ [][FifoNext]_vars

\* The runs that follow each order through its life: the engine of MatchSpec
\* with a record of the orders matched so far.
LifeNext ==
    \/ \E type \in OrderTypes, amount \in Prices :
          nextId < MaxMatchOrders /\ SendReceive(type, amount)
    \/ AcceptLock
    \/ AcceptInsert
    \/ ProcTick
    \/ AcquirerLock
    \/ ProcAcquiredRecorded
    \/ ProcTimeout
    \/ OrphanLock
    \/ ProcPair
    \/ ProcUnlock

LifeSpec == LiveInit /\ [][LifeNext]_vars

\* The orders resting in a book.
InBook(root) == Range(InorderTraversal(root))

\* C3: when a matching cycle that acquired the lock releases it, every buy
\* order and every sell order of a pair matched in that cycle is absent from
\* BuyQ and SellQ respectively.
C3_MatchedOrdersRemoved ==
    [][(procPc = "pairs" /\ procPc' = "tick")
          => \A t \in cycleMatched :
                /\ t.Type = BuyTransactionType => t \notin InBook(BuyQ')
                /\ t.Type = SellTransactionType => t \notin InBook(SellQ')]_vars

\* C4: after a cycle was skipped because the lock was held past the timeout,
\* the loop ticks again and, once the other parties (ingestion, snapshot
\* readers) no longer hold the lock, a later cycle acquires the lock and
\* performs matching.
C4_SkippedCycleRecovered ==
    (<>[](queueLock \notin {"accept", "book"}))
        => ((procPc = "tick" /\ orphans > 0) ~> (procPc = "pairs"))

\* C5: every valid order received from the inbound channel is eventually
\* inserted into its book, and every GetOrderBook call eventually returns,
\* also in executions where matching cycles time out.
C5_IngestionAndReadsLive ==
    /\ (acceptPc = "lock")
          ~> (acceptPc = "recv" /\ acceptTxn \in InBook(BuyQ) \cup InBook(SellQ))
    /\ (bookPc = "lock") ~> (bookPc = "idle")

\* C10: LastTradedPrice is at least 1 in every reachable state; NewExchange
\* sets it to 1 for an initial price below 1 and to the initial price
\* otherwise (no transaction created yet: no trade has assigned it).
C10_PriceFloor ==
    /\ LastTradedPrice >= 1
    /\ nextId = 0 => LastTradedPrice = (IF initLtp < 1 THEN 1 ELSE initLtp)

\* An exchange constructed with a price below 1 has processed a trade.
C10_Witness ==
    /\ initLtp < 1
    /\ cycleMatched # {}
    /\ procPc = "pairs"
    /\ matchedPairs = <<>>
    /\ LastTradedPrice >= 1

\* C11: an order with a price below 1 sent on the inbound channel is dropped
\* by ingestion: ingestion never goes on to lock or insert for it (it returns
\* to the receive, no retry), so no book holds an order with a price below
\* 1, no matching cycle pairs one and no GetOrderBook result shows one.
C11_InvalidOrderDiscarded ==
    /\ acceptPc \in {"lock", "insert"} => acceptTxn.Amount >= 1
    /\ \A t \in InBook(BuyQ) \cup InBook(SellQ) : t.Amount >= 1
    /\ \A t \in cycleMatched : t.Amount >= 1
    /\ \A i \in DOMAIN matchedPairs :
          matchedPairs[i].buy.Amount >= 1 /\ matchedPairs[i].sell.Amount >= 1
    /\ orderBook # NoOrderBook =>
          /\ \A i \in DOMAIN orderBook.BuyOrders : orderBook.BuyOrders[i].Price >= 1
          /\ \A i \in DOMAIN orderBook.SellOrders : orderBook.SellOrders[i].Price >= 1

\* An order of price 0 was received after a valid order was accepted, and a
\* matching cycle has taken its snapshots since.
C11_Witness ==
    /\ acceptTxn # NoTxn
    /\ acceptTxn.Amount < 1
    /\ acceptPc = "recv"
    /\ InBook(BuyQ) \cup InBook(SellQ) # {}
    /\ procPc = "pairs"

\* C12: every trade executes at the sell price of its pair: the step that
\* processes a pair assigns that pair's sell price to LastTradedPrice, and
\* when a cycle that matched at least one pair releases the lock,
\* LastTradedPrice is the sell price of the last pair in pairing order.
C12_TradeAtSellPrice ==
    [][/\ (procPc = "pairs" /\ matchedPairs' # matchedPairs)
            => LastTradedPrice' = Head(matchedPairs).sell.Amount
       /\ (procPc = "pairs" /\ procPc' = "tick" /\ cyclePairs # <<>>)
            => LastTradedPrice' = cyclePairs[Len(cyclePairs)].sell.Amount]_vars

\* A cycle has processed two pairs of different sell prices, the first
\* pair's buy price above its sell price; the price is the last pair's.
C12_Witness ==
    /\ procPc = "pairs"
    /\ matchedPairs = <<>>
    /\ Len(cyclePairs) = 2
    /\ cyclePairs[1].sell.Amount # cyclePairs[2].sell.Amount
    /\ cyclePairs[1].buy.Amount > cyclePairs[1].sell.Amount
    /\ LastTradedPrice = cyclePairs[2].sell.Amount

\* C13: within one matching cycle each buy order appears in at most one
\* matched pair and each sell order appears in at most one matched pair.
C13_OnePairPerOrder ==
    \A i, j \in DOMAIN cyclePairs :
        i # j => /\ cyclePairs[i].buy.ID # cyclePairs[j].buy.ID
                 /\ cyclePairs[i].sell.ID # cyclePairs[j].sell.ID

\* C14: every pair a matching cycle produces has a buy price at or above its
\* sell price, its buy order taken from BuyQ and its sell order from SellQ
\* as the books are when the cycle takes its snapshots.
C14_PairsCrossFromSnapshot ==
    [][(procPc = "select" /\ procPc' = "pairs")
          => \A i \in DOMAIN matchedPairs' :
                /\ matchedPairs'[i].buy.Amount >= matchedPairs'[i].sell.Amount
                /\ matchedPairs'[i].buy \in InBook(BuyQ)
                /\ matchedPairs'[i].sell \in InBook(SellQ)
                /\ matchedPairs'[i].buy.Type = BuyTransactionType
                /\ matchedPairs'[i].sell.Type = SellTransactionType]_vars

\* A cycle has just paired a buy order with a cheaper sell order and left
\* aside a buy order and a sell order that do not cross.
C14_Witness ==
    /\ procPc = "pairs"
    /\ matchedPairs = cyclePairs
    /\ \E i \in DOMAIN cyclePairs :
          cyclePairs[i].buy.Amount > cyclePairs[i].sell.Amount
    /\ \E b \in InBook(BuyQ) \ cycleMatched, t \in InBook(SellQ) \ cycleMatched :
          b.Amount < t.Amount

\* No buy order in the books has a price at or above that of a sell order.
NoCross ==
    \A b \in InBook(BuyQ), t \in InBook(SellQ) : b.Amount < t.Amount

\* C15: a matching cycle that takes its snapshots when no buy order has a
\* price at or above any sell order's price (an empty book included) finds
\* no pair, and until a cycle without pairs has released the lock no step
\* changes LastTradedPrice, BuyQ or SellQ or starts a callback.
C15_NoCrossNoEffect ==
    [][/\ (procPc = "select" /\ procPc' = "pairs" /\ NoCross)
            => /\ cyclePairs' = <<>>
               /\ UNCHANGED <<LastTradedPrice, BuyQ, SellQ, pending, notified>>
       /\ (procPc = "pairs" /\ cyclePairs = <<>>)
            => /\ UNCHANGED <<LastTradedPrice, BuyQ, SellQ>>
               /\ notified' = <<>>
               /\ pending' \subseteq pending]_vars

\* A cycle found no pair although both books hold orders and a callback is
\* registered.
C15_Witness ==
    /\ procPc = "pairs"
    /\ cyclePairs = <<>>
    /\ NoCross
    /\ InBook(BuyQ) # {}
    /\ InBook(SellQ) # {}
    /\ priceUpdateCallbacks # <<>>

\* C16: the step by which a cycle gives up waiting for the lock changes
\* neither LastTradedPrice nor a book, starts no callback and leaves the
\* cycle without pairs; and every step that changes LastTradedPrice, takes
\* an order out of a book or starts a callback belongs to a cycle that has
\* obtained the lock, so a skipped cycle does none of this.
C16_TimeoutSkipsCycle ==
    [][/\ (procPc = "select" /\ procPc' = "tick")
            => /\ UNCHANGED <<LastTradedPrice, BuyQ, SellQ, pending>>
               /\ cyclePairs' = <<>>
               /\ notified' = <<>>
       /\ (\/ LastTradedPrice' # LastTradedPrice
           \/ ~(InBook(BuyQ) \subseteq InBook(BuyQ'))
           \/ ~(InBook(SellQ) \subseteq InBook(SellQ'))
           \/ ~(pending' \subseteq pending)
           \/ Len(notified') > Len(notified))
            => (procPc = "pairs" /\ queueLock = "process")]_vars

\* A cycle has just been skipped on timeout although the books hold a buy
\* order and a sell order that cross and a callback is registered.
C16_Witness ==
    /\ procPc = "tick"
    /\ orphans > 0
    /\ queueLock \in {"accept", "orphan"}
    /\ ~NoCross
    /\ priceUpdateCallbacks # <<>>

Min(a, b) == IF a < b THEN a ELSE b

\* result is what the claim says of one side of the book held in root: of
\* length min(10, size of the book), sorted by price (desc: highest first),
\* every entry the id, price and side of an order of the book, no order
\* taken more often than the book holds it, and no order left out that has
\* a better price than an entry.
IsTopOfBook(result, root, type, desc) ==
    LET book == Entries(root)
    IN /\ Len(result) = Min(10, Len(book))
       /\ \A i \in 1..(Len(result) - 1) :
             IF desc THEN result[i].Price >= result[i + 1].Price
                     ELSE result[i].Price <= result[i + 1].Price
       /\ \A i \in DOMAIN result :
             /\ result[i].Type = type
             /\ \E t \in InBook(root) :
                   /\ result[i].ID = t.ID
                   /\ result[i].Price = t.Amount
                   /\ result[i].Type = t.Type
             /\ Count(result, result[i]) <= Count(book, result[i])
       /\ \A j \in DOMAIN book :
             Count(book, book[j]) > Count(result, book[j])
                => \A i \in DOMAIN result :
                      IF desc THEN book[j].Price <= result[i].Price
                              ELSE book[j].Price >= result[i].Price

\* C17: GetOrderBook returns the buy entries sorted by non-increasing price
\* and the sell entries by non-decreasing price, each list of min(10, book
\* size) entries, the highest-priced buy orders and the lowest-priced sell
\* orders of the books at the time of the call, each entry with the
\* order's id, price and side.
C17_OrderBookTopTen ==
    orderBook # NoOrderBook =>
        /\ IsTopOfBook(orderBook.BuyOrders, BuyQ, BuyTransactionType, TRUE)
        /\ IsTopOfBook(orderBook.SellOrders, SellQ, SellTransactionType, FALSE)

\* GetOrderBook has returned ten entries of a buy book of more than ten
\* orders of two prices, leaving out an order of the lowest price returned.
C17_Witness ==
    /\ orderBook # NoOrderBook
    /\ Len(InorderTraversal(BuyQ)) > 10
    /\ Len(orderBook.BuyOrders) = 10
    /\ orderBook.BuyOrders[1].Price > orderBook.BuyOrders[10].Price
    /\ \E t \in InBook(BuyQ) :
          /\ t.Amount = orderBook.BuyOrders[10].Price
          /\ \A i \in 1..10 : orderBook.BuyOrders[i].ID # t.ID

\* The arguments of the invocations of callback the cycle under way has
\* started, in the order in which it started them.
CallsOf(callback) ==
    LET calls == SelectSeq(notified, LAMBDA d : d.callback = callback)
    IN [i \in 1..Len(calls) |-> calls[i].price]

\* C18: when a matching cycle with k pairs completes, it has invoked every
\* callback that was registered before the cycle began exactly k times, once
\* per pair and in pairing order, each time with the sell price of the pair.
C18_OneCallPerPair ==
    [][(procPc = "pairs" /\ procPc' = "tick")
          => \A callback \in 1..cycleCallbacks :
                CallsOf(callback) =
                    [i \in 1..Len(cyclePairs) |-> cyclePairs[i].sell.Amount]]_vars

\* A cycle that began with two callbacks registered has processed two pairs
\* of different sell prices, the first pair's buy price above its sell price.
C18_Witness ==
    /\ procPc = "pairs"
    /\ matchedPairs = <<>>
    /\ cycleCallbacks = 2
    /\ Len(cyclePairs) = 2
    /\ cyclePairs[1].buy.Amount > cyclePairs[1].sell.Amount
    /\ cyclePairs[1].sell.Amount # cyclePairs[2].sell.Amount
    /\ Len(notified) = 4

\* C19: callbacks are dispatched after the book lock has been released: no
\* step starts a callback goroutine, and no callback goroutine runs, while
\* the matching cycle holds queueLock.
C19_DispatchAfterUnlock ==
    [][(Len(notified') > Len(notified) \/ pending' # pending)
          => (queueLock # "process" /\ queueLock' # "process")]_vars

\* C20: a callback that fails is isolated: the step in which a callback
\* goroutine runs, whether the callback returns or panics, takes that one
\* goroutine away and leaves the ingestion loop, the matching loop, the
\* GetOrderBook callers, the lock and the other callbacks' goroutines as
\* they are.
C20_CallbackPanicIsolated ==
    [][~(pending \subseteq pending')
          => /\ \E callback \in pending : pending' = pending \ {callback}
             /\ UNCHANGED <<acceptPc, procPc, bookPc, acquirer, orphans,
                            matchedPairs, queueLock>>]_vars

\* C21: a callback that never returns, or returns late, does not stall the
\* engine: a cycle that has found its pairs goes on, with callbacks of its own
\* or of earlier cycles still running, to process every pair, starting a
\* goroutine for every registered callback at each of them, and then
\* releases queueLock.
C21_BlockedCallbackNoStall ==
    /\ [][(procPc = "pairs" /\ matchedPairs' # matchedPairs)
             => /\ matchedPairs' = Tail(matchedPairs)
                /\ \A i \in DOMAIN priceUpdateCallbacks :
                      notified'[Len(notified) + i].callback = priceUpdateCallbacks[i]
                /\ Range(priceUpdateCallbacks) \subseteq pending']_vars
    /\ (procPc = "pairs") ~> (procPc = "tick" /\ queueLock # "process")

\* A cycle has processed both of its pairs, and is about to unlock, while
\* the goroutines of both callbacks have not returned.
C21_Witness ==
    /\ procPc = "pairs"
    /\ matchedPairs = <<>>
    /\ Len(cyclePairs) = 2
    /\ Len(priceUpdateCallbacks) = 2
    /\ pending = {1, 2}
    /\ Len(notified) = 4

\* The parties that are inside their section of book accesses: AcceptTrades
\* between Lock and Unlock, ProcessTrades from the snapshots to the Unlock,
\* GetOrderBook between Lock and the deferred Unlock.
InBookSection ==
    {party \in {"accept", "process", "book"} :
        \/ party = "accept" /\ acceptPc = "insert"
        \/ party = "process" /\ (procPc = "pairs" \/ acquirer = "sent")
        \/ party = "book" /\ bookPc = "read"}

\* C22: book accesses are mutually exclusive and made under queueLock: at
\* most one of the ingestion insert, the matching cycle's scan-and-remove
\* section and the GetOrderBook traversal is under way, the one under way
\* holds queueLock, and every step that changes a book, takes the matching
\* snapshots or produces a GetOrderBook result is taken by the holder.
C22_BookAccessExclusive ==
    /\ [](/\ Cardinality(InBookSection) <= 1
          /\ InBookSection \subseteq {queueLock})
    /\ [][/\ (BuyQ' # BuyQ \/ SellQ' # SellQ)
             => \/ queueLock = "accept" /\ acceptPc = "insert"
                \/ queueLock = "process" /\ procPc = "pairs"
          /\ (procPc = "select" /\ procPc' = "pairs") => queueLock = "process"
          /\ orderBook' # NoOrderBook
             => queueLock = "book" /\ bookPc = "read"]_vars

\* A matching cycle is inside its section, with a pair still to remove,
\* while AcceptTrades and a GetOrderBook caller both wait for queueLock.
C22_Witness ==
    /\ procPc = "pairs"
    /\ matchedPairs # <<>>
    /\ queueLock = "process"
    /\ acceptPc = "lock"
    /\ bookPc = "lock"

\* C23: LastTradedPrice is read and written under the lock: every step that
\* stores it is taken by the matching cycle while it holds queueLock, and no
\* step loads it while the matching cycle holds queueLock, as would be the
\* case if the readers took the lock for their load.
C23_PriceAccessUnderLock ==
    [][/\ LastTradedPrice' # LastTradedPrice => queueLock = "process"
       /\ priceRead' # NoPrice => queueLock # "process"]_vars

\* The callers whose order is in the concurrent tree: Insert has returned,
\* Remove has not yet run.
Inserted == {c \in Callers :
                callerPc[c] \in {"search", "searching", "remove", "removing"}}

ValidCreated(p) == SelectSeq(created[p], LAMBDA txn : ~Rejected(txn))

\* C25: orders of one producer are ingested in the order it sent them: with
\* books that only grow, whenever a valid order of a producer is in its
\* book, every valid order the same producer created before it is in its
\* book too, whatever the other producers have created and sent meanwhile.
C25_ProducerFifo ==
    \A p \in Producers :
        \A j \in DOMAIN ValidCreated(p) :
            ValidCreated(p)[j] \in InBook(BuyQ) \cup InBook(SellQ)
                => \A i \in 1..(j - 1) :
                      ValidCreated(p)[i] \in InBook(BuyQ) \cup InBook(SellQ)

\* A producer's two valid orders are both in the books while an order that
\* another producer created between them is still being sent.
C25_Witness ==
    \E p, q \in Producers :
        /\ Len(ValidCreated(p)) = 2
        /\ \A i \in 1..2 : ValidCreated(p)[i] \in InBook(BuyQ) \cup InBook(SellQ)
        /\ sending[q] # NoTxn
        /\ ValidCreated(p)[1].ID < sending[q].ID
        /\ sending[q].ID < ValidCreated(p)[2].ID

\* A node as Get must return it: no children, height 0.
IsReset(node) ==
    /\ ~node.nil
    /\ node.Left = NilNode
    /\ node.Right = NilNode
    /\ node.Height = 0

\* C26: every node NodePool.Get returns, fresh or recycled, has nil Left, nil
\* Right and Height 0, and so has every node waiting in the pool; Put adds
\* the node it is given to the pool with its Value as it was.
C26_GetReturnsResetNode ==
    /\ [](/\ poolOp = "get" => IsReset(lastGot)
          /\ \A node \in BagToSet(pool) : IsReset(node))
    /\ [][poolOp' = "put"
             => \E node \in BagToSet(held) :
                   /\ held' = held (-) SetToBag({node})
                   /\ pool' = pool (+) SetToBag(
                          {treeNode(node.Value, NilNode, NilNode, 0)})]_vars

\* Get has returned a recycled node: it carries the payload a caller gave it
\* before putting it back.
C26_Witness ==
    /\ poolOp = "get"
    /\ lastGot.Value = CallerTxn(1)
    /\ recycled >= 1

\* C27: the counters of NodePool: allocated changes only in a Get, by one,
\* and does so exactly in the Gets made while no put node waits in the pool
\* (a Get made while one waits reuses it); recycled changes only in a Put of
\* a node, by one, in each of them; Put(nil) changes nothing.
C27_PoolCounters ==
    [][/\ allocated' # allocated
            => (poolOp' = "get" /\ allocated' = allocated + 1)
       /\ poolOp' = "get"
            => (allocated' # allocated <=> pool = EmptyBag)
       /\ recycled' # recycled
            => (poolOp' = "put" /\ recycled' = recycled + 1)
       /\ poolOp' = "put" => recycled' = recycled + 1
       /\ poolOp' = "putnil" => UNCHANGED <<pool, allocated, recycled>>]_vars

\* C28: any two transactions NewTransaction has created during one run have
\* different IDs, whatever their sides and however close in time they were
\* created.
C28_UniqueIDs ==
    \A i, j \in DOMAIN newTxns : i # j => newTxns[i].ID # newTxns[j].ID

\* The orders of a book that a step took out of it.
RemovedFrom(before, after) ==
    {t \in InBook(before) :
        Count(InorderTraversal(after), t) < Count(InorderTraversal(before), t)}

\* C29: the ingestion step for a valid order adds exactly that order to the
\* book of its side and leaves the other book and LastTradedPrice as they
\* were; BuyQ holds BUY orders only and SellQ SELL orders only; and a step
\* that takes an order out of a book is a step of the matching loop.
C29_IngestionAddsOnlyItsOrder ==
    /\ [](/\ \A t \in InBook(BuyQ) : t.Type = BuyTransactionType
          /\ \A t \in InBook(SellQ) : t.Type = SellTransactionType)
    /\ [][/\ (acceptPc = "insert" /\ acceptPc' = "recv"
               /\ acceptTxn.Type = BuyTransactionType)
              => /\ PlusOne(InorderTraversal(BuyQ), acceptTxn,
                            InorderTraversal(BuyQ'))
                 /\ UNCHANGED <<SellQ, LastTradedPrice>>
          /\ (acceptPc = "insert" /\ acceptPc' = "recv"
               /\ acceptTxn.Type = SellTransactionType)
              => /\ PlusOne(InorderTraversal(SellQ), acceptTxn,
                            InorderTraversal(SellQ'))
                 /\ UNCHANGED <<BuyQ, LastTradedPrice>>
          /\ (RemovedFrom(BuyQ, BuyQ') \cup RemovedFrom(SellQ, SellQ') # {})
              => /\ procPc = "pairs" /\ queueLock = "process"
                 /\ matchedPairs # <<>>
                 /\ RemovedFrom(BuyQ, BuyQ') \subseteq {Head(matchedPairs).buy}
                 /\ RemovedFrom(SellQ, SellQ') \subseteq {Head(matchedPairs).sell}]_vars

\* A sell order has just been added to SellQ while buy orders and other sell
\* orders rest in the books.
C29_Witness ==
    /\ acceptPc = "recv"
    /\ acceptTxn \in InBook(SellQ)
    /\ Cardinality(InBook(SellQ)) >= 2
    /\ BuyQ # NilNode

\* The node Remove's descent by price comes to first for price p: left for a
\* smaller price, right for a greater one, stop at an equal one.
RECURSIVE FirstOfPrice(_, _)
FirstOfPrice(node, p) ==
    IF node = NilNode THEN NilNode
    ELSE IF p < node.Value.Amount THEN FirstOfPrice(node.Left, p)
    ELSE IF p > node.Value.Amount THEN FirstOfPrice(node.Right, p)
    ELSE node

\* The orders met from a node by following right children.
RECURSIVE RightChain(_)
RightChain(node) ==
    IF node = NilNode THEN {}
    ELSE {node.Value} \cup RightChain(node.Right)

\* Remove's descent for an order comes to the node holding it: by price, and
\* into the right subtree from a node of equal price and another identity.
RECURSIVE RemoveReaches(_, _)
RemoveReaches(node, value) ==
    IF node = NilNode THEN FALSE
    ELSE IF value.Amount < node.Value.Amount THEN RemoveReaches(node.Left, value)
    ELSE IF value.Amount > node.Value.Amount THEN RemoveReaches(node.Right, value)
    ELSE IF node.Value.ID # value.ID THEN RemoveReaches(node.Right, value)
    ELSE TRUE

\* C30: in every tree that Insert and Remove can build, each order is met by
\* descending by price to the first node of its price and then following
\* right children, so that Remove's descent comes to every order in the tree.
C30_DuplicatesOnRightChain ==
    \A t \in Range(InorderTraversal(bst)) :
        /\ t \in RightChain(FirstOfPrice(bst, t.Amount))
        /\ RemoveReaches(bst, t)

\* The nodes of a tree, each with the subtree below it.
RECURSIVE SubTrees(_)
SubTrees(node) ==
    IF node.nil THEN {}
    ELSE {node} \cup SubTrees(node.Left) \cup SubTrees(node.Right)

\* after is before with x put in front of the first entry whose price is not
\* below x's (at the end when there is none).
InsertedBeforeEquals(before, x, after) ==
    \E i \in 1..(Len(before) + 1) :
        /\ after = SubSeq(before, 1, i - 1) \o <<x>>
                        \o SubSeq(before, i, Len(before))
        /\ \A j \in 1..(i - 1) : before[j].Amount < x.Amount
        /\ \A j \in i..Len(before) : before[j].Amount >= x.Amount

\* C31 as stated: after Insert(o), o is in the left subtree of every node
\* that holds an order of o's price which was in the tree before.
C31_LeftDescendantOfEqualPrice ==
    [][lastOp' = "insert"
          => \A n \in SubTrees(bst') :
                (/\ n.Value \in Range(InorderTraversal(bst))
                 /\ n.Value.Amount = lastArg'.Amount)
                    => lastArg' \in Range(InorderTraversal(n.Left))]_vars

\* C31 amended: after Insert(o), o comes in the in-order traversal directly
\* before the orders of its price that were in the tree, after every order of
\* a lower price, and the other orders keep their places among themselves.
C31_InsertedBeforeEqualPrice ==
    [][lastOp' = "insert"
          => InsertedBeforeEquals(InorderTraversal(bst), lastArg',
                                  InorderTraversal(bst'))]_vars

\* An Insert has put an order into a tree that held its price, and the
\* rebalancing left it outside the left subtree of a node of that price.
C31_Witness ==
    /\ lastOp = "insert"
    /\ \E n \in SubTrees(bst) :
          /\ n.Value # lastArg
          /\ n.Value.Amount = lastArg.Amount
          /\ lastArg \notin Range(InorderTraversal(n.Left))
    /\ \E t \in Range(InorderTraversal(bst)) : t.Amount < lastArg.Amount

\* The number of leading positions at which the buy snapshot's price is at
\* or above the sell snapshot's.
CrossingPrefix(buyOrders, sellOrders) ==
    LET n == IF Len(buyOrders) < Len(sellOrders)
             THEN Len(buyOrders) ELSE Len(sellOrders)
        ok == {k \in 0..n :
                 \A i \in 1..k : buyOrders[i].Amount >= sellOrders[i].Amount}
    IN CHOOSE k \in ok : \A j \in ok : j <= k

\* C32: with the buy snapshot b1, b2, ... by descending price and the sell
\* snapshot s1, s2, ... by ascending price, the pairs of a cycle are
\* (b1, s1), ..., (bk, sk) in that order, k being the largest number with
\* bi >= si for all i <= k, and no other order is matched in the cycle.
C32_GreedyPairsArePrefix ==
    [][(procPc = "select" /\ procPc' = "pairs")
          => LET buyOrders == Reverse(InorderTraversal(BuyQ))
                 sellOrders == InorderTraversal(SellQ)
                 k == CrossingPrefix(buyOrders, sellOrders)
             IN /\ \A i \in 1..(Len(buyOrders) - 1) :
                      buyOrders[i].Amount >= buyOrders[i + 1].Amount
                /\ \A i \in 1..(Len(sellOrders) - 1) :
                      sellOrders[i].Amount <= sellOrders[i + 1].Amount
                /\ matchedPairs' = [i \in 1..k |->
                       [buy |-> buyOrders[i], sell |-> sellOrders[i]]]
                /\ cycleMatched' = {buyOrders[i] : i \in 1..k}
                                      \cup {sellOrders[i] : i \in 1..k}]_vars

\* A cycle has just paired two buy orders with two sell orders of different
\* prices.
C32_Witness ==
    /\ procPc = "pairs"
    /\ matchedPairs = cyclePairs
    /\ Len(cyclePairs) = 2
    /\ cyclePairs[1].sell.Amount < cyclePairs[2].sell.Amount

\* C33: after every Insert and Remove each node's Height field is one more
\* than the larger of its children's heights, a childless node having height
\* 0 and an absent subtree -1; so it is the height the shape gives the node.
C33_StoredHeights ==
    \A n \in SubTrees(bst) :
        /\ n.Height = 1 + Max(height(n.Left), height(n.Right))
        /\ (n.Left.nil /\ n.Right.nil) => n.Height = 0
        /\ n.Height = TrueHeight(n)

\* A Remove has left a tree of three levels.
C33_Witness ==
    /\ lastOp = "remove"
    /\ ~bst.nil
    /\ bst.Height = 2
    /\ ~bst.Left.nil /\ ~bst.Right.nil

\* C34: Remove of an order that is not in the tree leaves the tree as it is
\* (shape, contents, heights): on the empty tree, for a price that is not in
\* the tree, and for a price that is in the tree under other identities.
C34_RemoveAbsentIsNoOp ==
    [][(lastOp' = "remove" /\ lastArg' \notin Range(InorderTraversal(bst)))
          => bst' = bst]_vars

\* A Remove has run for an order that is not in the tree, which holds three
\* orders or more, one of them of the same price.
C34_Witness ==
    /\ lastOp = "remove"
    /\ lastArg \notin Range(InorderTraversal(bst))
    /\ Cardinality(Range(InorderTraversal(bst))) >= 3
    /\ \E t \in Range(InorderTraversal(bst)) : t.Amount = lastArg.Amount

\* C35: an order that has been part of a matched pair is part of no matched
\* pair of a later matching cycle, whatever the books hold (orders of one
\* price included): each order is matched at most once.
C35_MatchedAtMostOnce ==
    [][(procPc = "select" /\ procPc' = "pairs")
          => cycleMatched' \cap matchedBefore = {}]_vars

\* C36: when a matching cycle that acquired the lock releases it, the books
\* are uncrossed: BuyQ or SellQ is empty, or the highest price in BuyQ is
\* below the lowest price in SellQ.
C36_UncrossedAtCycleEnd ==
    [][(procPc = "pairs" /\ procPc' = "tick")
          => \/ BuyQ' = NilNode
             \/ SellQ' = NilNode
             \/ \A b \in InBook(BuyQ'), t \in InBook(SellQ') :
                   b.Amount < t.Amount]_vars

C38_PooledTreeRefinesTxnBST ==
    [][/\ lastOp' = "insert" => bst' = Insert(bst, lastArg')
       /\ lastOp' = "remove" => bst' = Remove(bst, lastArg')
       /\ lastOp' = "search"
            => (bst' = bst /\ searchResult' = Search(bst, lastArg'))]_vars

\* An Insert has built a tree of three orders or more with the node that an
\* earlier Remove had put into the pool.
C38_Witness ==
    /\ lastOp = "insert"
    /\ recycled >= 1
    /\ pool = EmptyBag
    /\ Len(InorderTraversal(bst)) >= 3

\* C39: a Remove of ConcurrentTxnBST for an order in the tree returns exactly
\* one node to the pool, once, and that node has left the tree: it was a node
\* of the tree before, and the tree after has one node fewer.
C39_RemoveRecyclesOneNode ==
    [][(lastOp' = "remove" /\ lastArg' \in Range(InorderTraversal(bst)))
          => LET nodes == removeNodeWithRecycling(bst, lastArg').nodesToRecycle
             IN /\ recycled' = recycled + 1
                /\ Len(nodes) = 1
                /\ \A i \in DOMAIN nodes : nodes[i] \in SubTrees(bst)
                /\ Len(InorderTraversal(bst')) + Len(nodes)
                      = Len(InorderTraversal(bst))]_vars

\* C40: for a current price of at least 1 a generated buy price lies between
\* max(1, price - 100) and the price, and a generated sell price between
\* max(1, price - 25) and price + 100; so no generated price is below 1 and
\* no buy price above the current price.
C40_GeneratedPriceRanges ==
    /\ (genTxn # NoTxn /\ genTxn.Type = BuyTransactionType)
          => /\ genTxn.Amount >= Max(1, currentPrice - 100)
             /\ genTxn.Amount <= currentPrice
    /\ (genTxn # NoTxn /\ genTxn.Type = SellTransactionType)
          => /\ genTxn.Amount >= Max(1, currentPrice - 25)
             /\ genTxn.Amount <= currentPrice + 100
    /\ genTxn # NoTxn => genTxn.Amount >= 1

====
